---- MODULE Spec2Model ----
(***************************************************************************)
(* Model of the bulk image uploader of services/cloudinary_service.py:     *)
(* CloudinaryService.upload_from_local and upload_from_dropbox fan the     *)
(* enumerated image files out to a ThreadPoolExecutor, drain the futures   *)
(* with as_completed, append one outcome per future to the result list     *)
(* and keep running counters in self.upload_stats under self.stats_lock.   *)
(*                                                                         *)
(* A file name is the record [stem, ext]; Path(name).stem and .suffix are  *)
(* its projections. A value that is None or a string in the code is the    *)
(* empty tuple or a one-element tuple here, so that the two are comparable.*)
(*                                                                         *)
(* The second part models services/database_service.py: the characteristic *)
(* lookups get_*_from_product and BazarchicDB.export_comprehensive_csv,    *)
(* which queries the catalog and writes the CSV files of an export. A      *)
(* string of the database is a tuple of one-character strings.             *)
(***************************************************************************)
EXTENDS Integers, Sequences, FiniteSets, TLC

\* ---------------------------------------------------------------- bounds
\* Largest number of directory entries of an ordinary batch.
MaxEntries == 4
\* Number of directory entries of the one large batch (11 image files),
\* enough failures to pass the cap of the error-sample list.
CapEntries == 17
\* Largest max_workers argument tried.
MaxWorkers == 2
\* Largest index at which a listing may start in the sequence of entries.
MaxFirst == 3
\* Number of entries the file-sharing service puts on one page of a listing
\* that it delivers in pages.
PageSize == 2
\* Largest number of codes in the list of an export request.
MaxCodes == 2
\* Largest number of products in the catalog of an export request.
MaxProducts == 2
\* Largest number of folders a Dropbox folder holds.
MaxSubfolders == 3
\* Largest max_pages a Cloudinary folder scan is called with.
MaxPagesArg == 3
\* Largest number of resource pages the Cloudinary account has.
MaxRemotePages == 2

\* ---------------------------------------------------- program constants
\* cloudinary_service.py:107  if len(self.upload_stats['errors']) < 10
MaxErrorSamples == 10

\* cloudinary_service.py:35
SUPPORTED_EXTENSIONS == {".jpg", ".jpeg", ".png", ".gif", ".bmp", ".webp", ".svg"}

\* cloudinary_service.py:46 (default of cloudinary_folder) and :347
LocalFolder == "bazarchic_images"
DropboxFolder == "bazarchic_dropbox"

\* ------------------------------------------------------- python values
None == << >>
Str(s) == << s >>

\* cloudinary_service.py:121, 329, 365
UPLOAD_FAILED == Str("UPLOAD_FAILED")

\* str.lower() on the suffixes that occur
Lower(s) ==
  CASE s = ".PNG" -> ".png"
    [] s = ".JPG" -> ".jpg"
    [] OTHER -> s

\* Path(name).stem and Path(name).suffix
Stem(name) == name.stem
Suffix(name) == name.ext

\* ------------------------------------------------------------ the inputs
\* The entries a directory or Dropbox folder may hold: entries 2k-1 and 2k
\* share the stem k, the suffix cycles through an upper-case and an
\* unsupported one, every fifth entry is a folder. A listing is a run of
\* consecutive entries.
ExtCycle == << ".jpg", ".PNG", ".txt", ".jpeg" >>
Entry(i) ==
  [ name |-> [stem |-> (i + 1) \div 2, ext |-> ExtCycle[((i - 1) % Len(ExtCycle)) + 1]],
    kind |-> IF i % 5 = 0 THEN "folder" ELSE "file" ]
Listing(first, k) == [i \in 1..k |-> Entry(first + i - 1)]

Origins == {"local", "dropbox"}

\* What may happen to one item's upload: the store accepts it, the upload
\* call raises, the temporary-link call raises (dropbox only), or an
\* exception escapes the worker function so that future.result() raises.
Fates == {"ok", "upload_fail", "link_fail", "raise"}

\* The exceptions of the environment and str(e)
UploadError == [type |-> "cloudinary.exceptions.Error", msg |-> "upload failed"]
LinkError == [type |-> "dropbox.exceptions.ApiError", msg |-> "no temporary link"]
WorkerCrash == [type |-> "Exception", msg |-> "worker crashed"]
NoExc == [type |-> "", msg |-> ""]
StrOfExc(e) == Str(e.msg)

\* An ordinary batch: any origin, a short listing, a missing source or not,
\* any worker count from -1 on, every fate possible, futures yielded in any
\* order; a Dropbox folder is listed whole or in pages of PageSize entries; a
\* local path may exist without being a directory (it then has no entries).
SmallInputs ==
  [ origin : {"local"}, first : 1..MaxFirst, entries : 0..MaxEntries,
    source_ok : BOOLEAN, is_dir : {TRUE}, paged : {FALSE},
    max_workers : (0 - 1)..MaxWorkers, fates : {Fates}, schedule : {"any"} ]
  \cup
  [ origin : {"local"}, first : {1}, entries : {0},
    source_ok : {TRUE}, is_dir : {FALSE}, paged : {FALSE},
    max_workers : (0 - 1)..MaxWorkers, fates : {Fates}, schedule : {"any"} ]
  \cup
  [ origin : {"dropbox"}, first : 1..MaxFirst, entries : 0..MaxEntries,
    source_ok : BOOLEAN, is_dir : {TRUE}, paged : BOOLEAN,
    max_workers : (0 - 1)..MaxWorkers, fates : {Fates}, schedule : {"any"} ]

\* The large batch: local, sequential, uploads that fail (or fail or succeed),
\* explored with the futures yielded in submission order.
CapInputs ==
  [ origin : {"local"}, first : {1}, entries : {CapEntries}, source_ok : {TRUE},
    is_dir : {TRUE}, paged : {FALSE}, max_workers : {1}, fates : {{"upload_fail"}, {"ok", "upload_fail"}},
    schedule : {"fifo"} ]

VARIABLES
  callers,       \* the threads calling a batch upload on this CloudinaryService
  input,         \* per caller: the arguments and the environment of its call
  pc,            \* per caller: where the calling thread stands
  image_files,   \* per caller: the enumerated image files (a sequence)
  executor,      \* per caller: "none", "open" or "shutdown"
  futures,       \* per caller: one record per submitted item, in submission order
  yielded,       \* per caller: the futures as_completed has yielded, in order
  results,       \* per caller: the local list results
  ret,           \* per caller: what the call gave its caller
  upload_stats,  \* self.upload_stats
  stats_lock,    \* self.stats_lock: 0 when free, else the caller holding it
  store,         \* the Remote Object Store: objects by folder and public_id
  summary,       \* per caller: the statistics its "Upload Summary" printed
  runs,          \* per caller: 1 in its first request, 2 in the repeated one
  store_before,  \* the store as the repeated request found it
  ex_call,       \* export_comprehensive_csv: its arguments and the catalog
  ex_pc,         \* export_comprehensive_csv: where the call stands
  clean_codes,   \* export_comprehensive_csv: the local list clean_codes
  products,      \* export_comprehensive_csv: the rows cursor.fetchall() gave
  found_by_code, \* export_comprehensive_csv: the local dict found_by_code
  found_codes,   \* export_comprehensive_csv: the local list found_codes
  not_found_codes, \* export_comprehensive_csv: the local list not_found_codes
  csv_files,     \* the CSV files written: the rows of each, by file name
  ex_ret,        \* export_comprehensive_csv: what it returned
  lookup_call,   \* a characteristic lookup: the field and the product data
  lookup_result, \* a characteristic lookup: what it returned
  rt_call,       \* local_upload: the request and what its environment does
  rt_pc,         \* local_upload: where the request stands
  temp_dir,      \* local_upload: the staging directory: none, exists, deleted
  output_csv,    \* local_upload: the CSV file: none, exists, deleted
  rt_response,   \* local_upload: what the request answered
  fl_call,       \* list_dropbox_folders: its argument and the Dropbox account
  fl_pc,         \* list_dropbox_folders: where the call stands
  all_folders,   \* list_dropbox_folders: the local list all_folders
  scan_stack,    \* list_dropbox_folders: the running calls of scan_folder
  fl_listed,     \* the folders files_list_folder was requested for, in order
  fl_ret,        \* list_dropbox_folders: what it returned
  sc_call,       \* a Cloudinary folder scan: the function, max_pages, the account
  sc_pc,         \* a Cloudinary folder scan: where the call stands
  discovered,    \* the local set discovered / discovered_paths
  sc_page,       \* the local counter page
  next_cursor,   \* the local next_cursor: None or the cursor of the last page
  sc_requests,   \* the requests cloudinary.api.resources has answered or failed
  sc_ret,        \* a Cloudinary folder scan: what it returned
  im_call,       \* ImageExtractorService.export_to_csv: arguments and catalog
  im_pc,         \* ImageExtractorService.export_to_csv: where the call stands
  im_clean,      \* export_to_csv: the local list clean_codes
  images_data,   \* export_to_csv: the local dict images_data
  images_list,   \* export_to_csv: the local list images_list
  im_found,      \* export_to_csv: the local list found_codes
  not_found,     \* export_to_csv: the local list not_found
  im_files,      \* export_to_csv: the rows of the files written, by name
  im_ret         \* export_to_csv: what it returned

\* the variables of the batch upload
batchvars == << callers, input, pc, image_files, executor, futures, yielded, results,
                ret, upload_stats, stats_lock, store, summary, runs, store_before >>

\* the variables of the catalog export
exportvars == << ex_call, ex_pc, clean_codes, products, found_by_code, found_codes,
                 not_found_codes, csv_files, ex_ret >>

\* the variables of the characteristic lookup
lookupvars == << lookup_call, lookup_result >>

\* the variables of the local-upload request
routevars == << rt_call, rt_pc, temp_dir, output_csv, rt_response >>

\* the variables of the requests other than batch, export and lookup
\* the variables of the Dropbox folder listing
foldervars == << fl_call, fl_pc, all_folders, scan_stack, fl_listed, fl_ret >>

\* the variables of the Cloudinary folder scans
scanvars == << sc_call, sc_pc, discovered, sc_page, next_cursor, sc_requests, sc_ret >>

\* the variables of the image-URL export
imagevars == << im_call, im_pc, im_clean, images_data, images_list, im_found, not_found,
                im_files, im_ret >>

restvars == << routevars, foldervars, scanvars, imagevars >>

vars == << batchvars, exportvars, lookupvars, restvars >>

\* what a step of a batch upload never touches
aux == << runs, store_before, exportvars, lookupvars, restvars >>

\* ------------------------------------------------------------- helpers
\* the suffix compared without lower()
IsImageFileCaseSensitive(e) ==
  e.kind = "file" /\ Suffix(e.name) \in SUPPORTED_EXTENSIONS

\* cloudinary_service.py:68 / 168-169
IsImageFile(e) ==
  e.kind = "file" /\ Lower(Suffix(e.name)) \in SUPPORTED_EXTENSIONS

\* dbx.files_list_folder(path).entries (160, 167): the entries of the first
\* page; result.has_more and result.cursor are not read
FirstPage(listing, paged) ==
  IF paged /\ Len(listing) > PageSize THEN SubSeq(listing, 1, PageSize) ELSE listing

\* the emptiness test left out
NoImagesNever(files) == FALSE

\* cloudinary_service.py:71 / 172  if not image_files
NoImages(files) == files = << >>

\* cloudinary_service.py:38-43 and 79-84
NewStats(total) ==
  [ total |-> total, successful |-> 0, failed |-> 0, errors |-> << >> ]

\* the secure_url the store answers for an object
SecureUrl(folder, public_id) ==
  << "https://res.cloudinary.com", folder, public_id >>

\* cloudinary_service.py:319-324 / 355-360
SuccessOutcome(name, url) ==
  [ local_filename |-> Stem(name), cloudinary_url |-> url,
    status |-> "success", error |-> None ]

\* a failed outcome that drops the exception's description
FailedOutcomeNoError(name, e) ==
  [ local_filename |-> Stem(name), cloudinary_url |-> UPLOAD_FAILED,
    status |-> "failed", error |-> None ]

\* cloudinary_service.py:327-332 / 363-368 / 119-124
FailedOutcome(name, e) ==
  [ local_filename |-> Stem(name), cloudinary_url |-> UPLOAD_FAILED,
    status |-> "failed", error |-> StrOfExc(e) ]

NoResult ==
  [ local_filename |-> 0, cloudinary_url |-> None, status |-> "none", error |-> None ]

\* executor.submit: a future waiting in the executor's work queue
NewFuture ==
  [ state |-> "queued", result |-> NoResult, exc |-> NoExc, fault |-> NoExc,
    uploads |-> 0, links |-> 0, link |-> None, returned |-> None ]

\* an upload that leaves what the store holds under the identifier in place
StoreAfterKeepingOld(s, folder, public_id, source) ==
  s \cup { [folder |-> folder, public_id |-> public_id, source |-> source] }

\* cloudinary.uploader.upload(..., public_id, overwrite=True)
StoreAfter(s, folder, public_id, source) ==
  { o \in s : ~(o.folder = folder /\ o.public_id = public_id) }
    \cup { [folder |-> folder, public_id |-> public_id, source |-> source] }

\* the cap tested with <= instead of <
ErrorsAfterOffByOne(errors, e) ==
  IF Len(errors) <= MaxErrorSamples THEN Append(errors, e) ELSE errors

\* cloudinary_service.py:107-108
ErrorsAfter(errors, e) ==
  IF Len(errors) < MaxErrorSamples THEN Append(errors, e) ELSE errors

\* failed incremented outside the else branch
StatsAfterCountsTwice(stats, result) ==
  IF result.status = "success"
    THEN [stats EXCEPT !.successful = @ + 1, !.failed = @ + 1]
    ELSE [stats EXCEPT !.failed = @ + 1, !.errors = ErrorsAfter(@, result.error)]

\* cloudinary_service.py:103-108: the body of "with self.stats_lock"
StatsAfter(stats, result) ==
  IF result.status = "success"
    THEN [stats EXCEPT !.successful = @ + 1]
    ELSE [stats EXCEPT !.failed = @ + 1, !.errors = ErrorsAfter(@, result.error)]

\* the items a worker thread is busy with
InFlight(c) ==
  { i \in DOMAIN futures[c] : futures[c][i].state \in {"running", "linked"} }

\* an executor with a thread per item
PoolCapacityPerItem(c) == Len(image_files[c])

\* ThreadPoolExecutor(max_workers=max_workers): at most that many threads
PoolCapacity(c) == input[c].max_workers

\* the loop over as_completed left before it is exhausted
LoopLeftEarly(c) == TRUE

\* as_completed(futures) is exhausted: every future was yielded
AllYielded(c) ==
  Len(yielded[c]) = Len(image_files[c])

\* ThreadPoolExecutor.__exit__: shutdown(wait=True)
AllDone(c) ==
  \A i \in DOMAIN futures[c] : futures[c][i].state = "done"

Yielded(c, i) == \E k \in DOMAIN yielded[c] : yielded[c][k] = i

\* The future as_completed may yield next: any finished one not yet yielded
\* (the lowest such one when the run is explored in submission order).
MayYield(c, i) ==
  /\ i \in DOMAIN futures[c]
  /\ futures[c][i].state = "done"
  /\ ~Yielded(c, i)
  /\ input[c].schedule = "fifo" =>
       \A j \in 1..(i - 1) : Yielded(c, j)

Return(c, value) ==
  /\ pc' = [pc EXCEPT ![c] = "returned"]
  /\ ret' = [ret EXCEPT ![c] = [raised |-> FALSE, value |-> value, exc |-> NoExc]]

Raise(c, e) ==
  /\ pc' = [pc EXCEPT ![c] = "raised"]
  /\ ret' = [ret EXCEPT ![c] = [raised |-> TRUE, value |-> << >>, exc |-> e]]

ValueError == [type |-> "ValueError", msg |-> "max_workers must be greater than 0"]

\* what Path.iterdir raises on a path that exists and is not a directory
NotADirectoryError == [type |-> "NotADirectoryError", msg |-> "Not a directory"]

\* the test left out
FolderMissingNever(c) == FALSE

\* not folder_path.exists() (line 61)
FolderMissing(c) == ~input[c].source_ok

\* ---------------------------------------------------------------- Init
InitWith(cs, inputs) ==
  /\ callers = cs
  /\ input \in [cs -> inputs]
  /\ pc = [c \in cs |-> "idle"]
  /\ image_files = [c \in cs |-> << >>]
  /\ executor = [c \in cs |-> "none"]
  /\ futures = [c \in cs |-> << >>]
  /\ yielded = [c \in cs |-> << >>]
  /\ results = [c \in cs |-> << >>]
  /\ ret = [c \in cs |-> [raised |-> FALSE, value |-> << >>, exc |-> NoExc]]
  /\ upload_stats = NewStats(0)
  /\ stats_lock = 0
  /\ store = {}
  /\ summary = [c \in cs |-> None]
  /\ runs = [c \in cs |-> 1]
  /\ store_before = {}

\* no export was requested
ExportIdle ==
  /\ ex_call = [search_type |-> "ean", codes |-> << >>, catalog |-> << >>, db_ok |-> TRUE]
  /\ ex_pc = "idle"
  /\ clean_codes = << >>
  /\ products = << >>
  /\ found_by_code = << >>
  /\ found_codes = << >>
  /\ not_found_codes = << >>
  /\ csv_files = << >>
  /\ ex_ret = None

\* no characteristic was looked up
LookupIdle ==
  /\ lookup_call = None
  /\ lookup_result = None

\* no local-upload request was made
RouteIdle ==
  /\ rt_call = None
  /\ rt_pc = "idle"
  /\ temp_dir = "none"
  /\ output_csv = "none"
  /\ rt_response = "none"

\* no folder listing was requested
FoldersIdle ==
  /\ fl_call = None
  /\ fl_pc = "idle"
  /\ all_folders = << >>
  /\ scan_stack = << >>
  /\ fl_listed = << >>
  /\ fl_ret = None

\* no folder scan was requested
ScanIdle ==
  /\ sc_call = None
  /\ sc_pc = "idle"
  /\ discovered = {}
  /\ sc_page = 0
  /\ next_cursor = None
  /\ sc_requests = 0
  /\ sc_ret = None

\* no image-URL export was requested
ImagesIdle ==
  /\ im_call = None
  /\ im_pc = "idle"
  /\ im_clean = << >>
  /\ images_data = << >>
  /\ images_list = << >>
  /\ im_found = << >>
  /\ not_found = << >>
  /\ im_files = << >>
  /\ im_ret = None

RestIdle == RouteIdle /\ FoldersIdle /\ ScanIdle /\ ImagesIdle

\* Every route builds its own CloudinaryService for one batch
\* (routes/cloudinary.py:57-58 and 168-169): one caller per service.
Init == InitWith({1}, SmallInputs) /\ ExportIdle /\ LookupIdle /\ RestIdle

InitCap == InitWith({1}, SmallInputs \cup CapInputs) /\ ExportIdle /\ LookupIdle /\ RestIdle

\* ------------------------------------------------------------- actions
\* upload_from_local up to the reset of the statistics (lines 59-86); on a
\* path that is no directory folder_path.iterdir() raises (line 67) and
\* nothing in the method catches it
EnterLocal(c) ==
  /\ pc[c] = "idle"
  /\ input[c].origin = "local"
  /\ LET files == SelectSeq(Listing(input[c].first, input[c].entries), IsImageFile) IN
       IF FolderMissing(c)
         THEN /\ Return(c, << >>)
              /\ UNCHANGED << image_files, results, upload_stats >>
         ELSE IF ~input[c].is_dir
         THEN /\ Raise(c, NotADirectoryError)
              /\ UNCHANGED << image_files, results, upload_stats >>
         ELSE /\ image_files' = [image_files EXCEPT ![c] = files]
              /\ IF NoImages(files)
                   THEN /\ Return(c, << >>)
                        /\ UNCHANGED << results, upload_stats >>
                   ELSE /\ upload_stats' = NewStats(Len(files))
                        /\ results' = [results EXCEPT ![c] = << >>]
                        /\ pc' = [pc EXCEPT ![c] = "executor"]
                        /\ UNCHANGED ret
  /\ UNCHANGED << aux, summary, callers, input, executor, futures, yielded, stats_lock, store >>

\* upload_from_dropbox up to the reset of the statistics (lines 149-187);
\* a failing files_list_folder returns [] (lines 161-163)
EnterDropbox(c) ==
  /\ pc[c] = "idle"
  /\ input[c].origin = "dropbox"
  /\ LET files == SelectSeq(FirstPage(Listing(input[c].first, input[c].entries),
                                       input[c].paged), IsImageFile) IN
       IF ~input[c].source_ok
         THEN /\ Return(c, << >>)
              /\ UNCHANGED << image_files, results, upload_stats >>
         ELSE /\ image_files' = [image_files EXCEPT ![c] = files]
              /\ IF NoImages(files)
                   THEN /\ Return(c, << >>)
                        /\ UNCHANGED << results, upload_stats >>
                   ELSE /\ upload_stats' = NewStats(Len(files))
                        /\ results' = [results EXCEPT ![c] = << >>]
                        /\ pc' = [pc EXCEPT ![c] = "executor"]
                        /\ UNCHANGED ret
  /\ UNCHANGED << aux, summary, callers, input, executor, futures, yielded, stats_lock, store >>

\* with ThreadPoolExecutor(max_workers=max_workers) as executor (89 / 190):
\* the constructor raises ValueError for max_workers <= 0; upload_from_local
\* lets it through, upload_from_dropbox catches it at 235-237 and returns [].
CreateExecutor(c) ==
  /\ pc[c] = "executor"
  /\ IF input[c].max_workers <= 0
       THEN /\ IF input[c].origin = "local"
                 THEN Raise(c, ValueError)
                 ELSE Return(c, << >>)
            /\ UNCHANGED executor
       ELSE /\ executor' = [executor EXCEPT ![c] = "open"]
            /\ pc' = [pc EXCEPT ![c] =
                        IF image_files[c] = << >> THEN "collect" ELSE "submit"]
            /\ UNCHANGED ret
  /\ UNCHANGED << aux, summary, callers, input, image_files, futures, yielded, results,
                  upload_stats, stats_lock, store >>

\* one executor.submit of the dict comprehension (90-93 / 191-194)
Submit(c) ==
  /\ pc[c] = "submit"
  /\ futures' = [futures EXCEPT ![c] = Append(@, NewFuture)]
  /\ pc' = [pc EXCEPT ![c] =
              IF Len(futures[c]) + 1 = Len(image_files[c]) THEN "collect" ELSE "submit"]
  /\ UNCHANGED << aux, summary, callers, input, image_files, executor, yielded, results, ret,
                  upload_stats, stats_lock, store >>

\* a pool thread takes a queued work item, or takes a failed one again
WorkerStartRetrying(c, i) ==
  /\ i \in DOMAIN futures[c]
  /\ \/ futures[c][i].state = "queued"
     \/ futures[c][i].state = "done" /\ futures[c][i].fault # NoExc
  /\ Cardinality(InFlight(c)) < PoolCapacity(c)
  /\ futures' = [futures EXCEPT ![c][i].state = "running"]
  /\ UNCHANGED << aux, summary, callers, input, pc, image_files, executor, yielded, results, ret,
                  upload_stats, stats_lock, store >>

\* a pool thread takes the oldest queued work item
WorkerStart(c, i) ==
  /\ i \in DOMAIN futures[c]
  /\ futures[c][i].state = "queued"
  /\ \A j \in 1..(i - 1) : futures[c][j].state # "queued"
  /\ Cardinality(InFlight(c)) < PoolCapacity(c)
  /\ futures' = [futures EXCEPT ![c][i].state = "running"]
  /\ UNCHANGED << aux, summary, callers, input, pc, image_files, executor, yielded, results, ret,
                  upload_stats, stats_lock, store >>

\* what the upload call of a worker does to the future, given its fate
Uploaded(fut, name, folder, fate) ==
  CASE fate = "ok" ->
         [fut EXCEPT !.state = "done", !.uploads = @ + 1,
                     !.returned = SecureUrl(folder, Stem(name)),
                     !.result = SuccessOutcome(name, SecureUrl(folder, Stem(name)))]
    [] fate = "upload_fail" ->
         [fut EXCEPT !.state = "done", !.uploads = @ + 1, !.fault = UploadError,
                     !.result = FailedOutcome(name, UploadError)]
    [] OTHER ->
         [fut EXCEPT !.state = "done", !.uploads = @ + 1, !.fault = WorkerCrash,
                     !.exc = WorkerCrash]

\* _upload_single_file (302-332)
UploadSingleFile(c, i) ==
  /\ i \in DOMAIN futures[c]
  /\ input[c].origin = "local"
  /\ futures[c][i].state = "running"
  /\ \E fate \in input[c].fates \ {"link_fail"} :
       /\ futures' = [futures EXCEPT ![c][i] =
                        Uploaded(@, image_files[c][i].name, LocalFolder, fate)]
       /\ store' = IF fate = "ok"
                     THEN StoreAfter(store, LocalFolder, Stem(image_files[c][i].name),
                                     [via |-> "path", name |-> image_files[c][i].name])
                     ELSE store
  /\ UNCHANGED << aux, summary, callers, input, pc, image_files, executor, yielded, results, ret,
                  upload_stats, stats_lock >>

\* link.link of dbx.files_get_temporary_link(entry.path_lower) (341-342)
TempLink(name) == [via |-> "link", name |-> name]

\* a failed link request noted and the worker going on to the upload
LinkedIgnoringFailure(fut, name, fate) ==
  [fut EXCEPT !.state = "linked", !.links = @ + 1, !.link = TempLink(name),
              !.fault = IF fate = "link_fail" THEN LinkError ELSE @]

\* what the link request of a worker does to the future, given its fate:
\* an exception of files_get_temporary_link goes to the except clause, which
\* returns the failed outcome (339-342, 362-368)
Linked(fut, name, fate) ==
  IF fate = "link_fail"
    THEN [fut EXCEPT !.state = "done", !.links = @ + 1, !.fault = LinkError,
                     !.result = FailedOutcome(name, LinkError)]
    ELSE [fut EXCEPT !.state = "linked", !.links = @ + 1, !.link = TempLink(name)]

\* _upload_from_dropbox_url, dbx.files_get_temporary_link (339-342, 362-368)
GetTemporaryLink(c, i) ==
  /\ i \in DOMAIN futures[c]
  /\ input[c].origin = "dropbox"
  /\ futures[c][i].state = "running"
  /\ \E fate \in input[c].fates :
       futures' = [futures EXCEPT ![c][i] = Linked(@, image_files[c][i].name, fate)]
  /\ UNCHANGED << aux, summary, callers, input, pc, image_files, executor, yielded, results, ret,
                  upload_stats, stats_lock, store >>

\* _upload_from_dropbox_url, cloudinary.uploader.upload(temp_url, ...) (345-368)
UploadFromDropboxUrl(c, i) ==
  /\ i \in DOMAIN futures[c]
  /\ input[c].origin = "dropbox"
  /\ futures[c][i].state = "linked"
  /\ \E fate \in input[c].fates \ {"link_fail"} :
       /\ futures' = [futures EXCEPT ![c][i] =
                        Uploaded(@, image_files[c][i].name, DropboxFolder, fate)]
       /\ store' = IF fate = "ok"
                     THEN StoreAfter(store, DropboxFolder, Stem(image_files[c][i].name),
                                     futures[c][i].link)
                     ELSE store
  /\ UNCHANGED << aux, summary, callers, input, pc, image_files, executor, yielded, results, ret,
                  upload_stats, stats_lock >>

\* as_completed yields a future whose result() returns: results.append(result)
\* (95-99 / 196-200). The print calls of the loop are taken not to raise.
CollectResult(c, i) ==
  /\ pc[c] = "collect"
  /\ MayYield(c, i)
  /\ futures[c][i].exc = NoExc
  /\ yielded' = [yielded EXCEPT ![c] = Append(@, i)]
  /\ results' = [results EXCEPT ![c] = Append(@, futures[c][i].result)]
  /\ pc' = [pc EXCEPT ![c] = "lock"]
  /\ UNCHANGED << aux, summary, callers, input, image_files, executor, futures, ret,
                  upload_stats, stats_lock, store >>

\* the except branch only logs
CollectExceptionDropped(c, i) ==
  /\ pc[c] = "collect"
  /\ MayYield(c, i)
  /\ futures[c][i].exc # NoExc
  /\ yielded' = [yielded EXCEPT ![c] = Append(@, i)]
  /\ UNCHANGED << aux, summary, callers, input, pc, image_files, executor, futures, results, ret,
                  upload_stats, stats_lock, store >>

\* no except branch: the exception of future.result() leaves the call
CollectExceptionPropagates(c, i) ==
  /\ pc[c] = "collect"
  /\ MayYield(c, i)
  /\ futures[c][i].exc # NoExc
  /\ AllDone(c)
  /\ yielded' = [yielded EXCEPT ![c] = Append(@, i)]
  /\ executor' = [executor EXCEPT ![c] = "shutdown"]
  /\ Raise(c, futures[c][i].exc)
  /\ UNCHANGED << aux, summary, callers, input, image_files, futures, results,
                  upload_stats, stats_lock, store >>

\* as_completed yields a future whose result() raises: the except branch
\* appends a failed outcome and leaves the statistics alone (117-124 / 218-225)
CollectException(c, i) ==
  /\ pc[c] = "collect"
  /\ MayYield(c, i)
  /\ futures[c][i].exc # NoExc
  /\ yielded' = [yielded EXCEPT ![c] = Append(@, i)]
  /\ results' = [results EXCEPT ![c] =
                   Append(@, FailedOutcome(image_files[c][i].name, futures[c][i].exc))]
  /\ UNCHANGED << aux, summary, callers, input, pc, image_files, executor, futures, ret,
                  upload_stats, stats_lock, store >>

\* the lock taken whether it is free or not
AcquireStatsLockUnguarded(c) ==
  /\ pc[c] = "lock"
  /\ stats_lock' = c
  /\ pc' = [pc EXCEPT ![c] = "update"]
  /\ UNCHANGED << aux, summary, callers, input, image_files, executor, futures, yielded, results,
                  ret, upload_stats, store >>

\* with self.stats_lock: (102 / 203)
AcquireStatsLock(c) ==
  /\ pc[c] = "lock"
  /\ stats_lock = 0
  /\ stats_lock' = c
  /\ pc' = [pc EXCEPT ![c] = "update"]
  /\ UNCHANGED << aux, summary, callers, input, image_files, executor, futures, yielded, results,
                  ret, upload_stats, store >>

\* the body of the with block and the release of the lock (103-108 / 204-209)
UpdateStats(c) ==
  /\ pc[c] = "update"
  /\ stats_lock = c
  /\ upload_stats' = StatsAfter(upload_stats, results[c][Len(results[c])])
  /\ stats_lock' = 0
  /\ pc' = [pc EXCEPT ![c] = "collect"]
  /\ UNCHANGED << aux, summary, callers, input, image_files, executor, futures, yielded, results,
                  ret, store >>

\* the loop ends, the with block shuts the executor down, the summary is
\* printed from self.upload_stats, return results (125-136 / 226-233)
ReturnResults(c) ==
  /\ pc[c] = "collect"
  /\ AllYielded(c)
  /\ AllDone(c)
  /\ executor' = [executor EXCEPT ![c] = "shutdown"]
  /\ summary' = [summary EXCEPT ![c] = upload_stats]
  /\ Return(c, results[c])
  /\ UNCHANGED << aux, callers, input, image_files, futures, yielded, results,
                  upload_stats, stats_lock, store >>

Next ==
  \/ \E c \in callers : EnterLocal(c)
  \/ \E c \in callers : EnterDropbox(c)
  \/ \E c \in callers : CreateExecutor(c)
  \/ \E c \in callers : Submit(c)
  \/ \E c \in callers : \E i \in 1..Len(image_files[c]) : WorkerStart(c, i)
  \/ \E c \in callers : \E i \in 1..Len(image_files[c]) : UploadSingleFile(c, i)
  \/ \E c \in callers : \E i \in 1..Len(image_files[c]) : GetTemporaryLink(c, i)
  \/ \E c \in callers : \E i \in 1..Len(image_files[c]) : UploadFromDropboxUrl(c, i)
  \/ \E c \in callers : \E i \in 1..Len(image_files[c]) : CollectResult(c, i)
  \/ \E c \in callers : \E i \in 1..Len(image_files[c]) : CollectException(c, i)
  \/ \E c \in callers : AcquireStatsLock(c)
  \/ \E c \in callers : UpdateStats(c)
  \/ \E c \in callers : ReturnResults(c)

Spec == Init /\ [][Next]_vars

SpecCap == InitCap /\ [][Next]_vars

\* ------------------------------------------------- the request repeated
\* A request repeated with the same items: both origins, the listing
\* 1.jpg, 1.PNG, 2.txt, 2.jpeg or a prefix of it, two worker threads.
RerunInputs ==
  [ origin : Origins, first : {1}, entries : 1..MaxEntries, source_ok : {TRUE},
    is_dir : {TRUE}, paged : {FALSE}, max_workers : {MaxWorkers},
    fates : {Fates \ {"raise"}}, schedule : {"any"} ]

InitRerun == InitWith({1}, RerunInputs) /\ ExportIdle /\ LookupIdle /\ RestIdle

\* The route is requested again with the same arguments: it builds a new
\* CloudinaryService and calls the batch upload on the same folder
\* (routes/cloudinary.py:57-58, 168-169); the store keeps what it holds.
Rerun(c) ==
  /\ pc[c] = "returned"
  /\ runs[c] = 1
  /\ runs' = [runs EXCEPT ![c] = 2]
  /\ store_before' = store
  /\ pc' = [pc EXCEPT ![c] = "idle"]
  /\ image_files' = [image_files EXCEPT ![c] = << >>]
  /\ executor' = [executor EXCEPT ![c] = "none"]
  /\ futures' = [futures EXCEPT ![c] = << >>]
  /\ yielded' = [yielded EXCEPT ![c] = << >>]
  /\ results' = [results EXCEPT ![c] = << >>]
  /\ ret' = [ret EXCEPT ![c] = [raised |-> FALSE, value |-> << >>, exc |-> NoExc]]
  /\ summary' = [summary EXCEPT ![c] = None]
  /\ upload_stats' = NewStats(0)
  /\ stats_lock' = 0
  /\ UNCHANGED << callers, input, store, exportvars, lookupvars, restvars >>

NextRerun ==
  \/ \E c \in callers : EnterLocal(c)
  \/ \E c \in callers : EnterDropbox(c)
  \/ \E c \in callers : CreateExecutor(c)
  \/ \E c \in callers : Submit(c)
  \/ \E c \in callers : \E i \in 1..Len(image_files[c]) : WorkerStart(c, i)
  \/ \E c \in callers : \E i \in 1..Len(image_files[c]) : UploadSingleFile(c, i)
  \/ \E c \in callers : \E i \in 1..Len(image_files[c]) : GetTemporaryLink(c, i)
  \/ \E c \in callers : \E i \in 1..Len(image_files[c]) : UploadFromDropboxUrl(c, i)
  \/ \E c \in callers : \E i \in 1..Len(image_files[c]) : CollectResult(c, i)
  \/ \E c \in callers : AcquireStatsLock(c)
  \/ \E c \in callers : UpdateStats(c)
  \/ \E c \in callers : ReturnResults(c)
  \/ \E c \in callers : Rerun(c)

SpecRerun == InitRerun /\ [][NextRerun]_vars

\* ------------------------------------- two batches on one CloudinaryService
\* Two threads call upload_from_local on the same CloudinaryService object,
\* each on a folder of one or two images, with one worker thread; an upload
\* succeeds or fails, no future raises.
SharedInputs ==
  [ origin : {"local"}, first : {1}, entries : {1, 2}, source_ok : {TRUE},
    is_dir : {TRUE}, paged : {FALSE}, max_workers : {1},
    fates : {{"ok", "upload_fail"}}, schedule : {"any"} ]

InitShared == InitWith({1, 2}, SharedInputs) /\ ExportIdle /\ LookupIdle /\ RestIdle

NextShared ==
  \/ \E c \in callers : EnterLocal(c)
  \/ \E c \in callers : CreateExecutor(c)
  \/ \E c \in callers : Submit(c)
  \/ \E c \in callers : \E i \in 1..Len(image_files[c]) : WorkerStart(c, i)
  \/ \E c \in callers : \E i \in 1..Len(image_files[c]) : UploadSingleFile(c, i)
  \/ \E c \in callers : \E i \in 1..Len(image_files[c]) : CollectResult(c, i)
  \/ \E c \in callers : AcquireStatsLock(c)
  \/ \E c \in callers : UpdateStats(c)
  \/ \E c \in callers : ReturnResults(c)

SpecShared == InitShared /\ [][NextShared]_vars

\* ------------------------------------------------------------- claims
Min(a, b) == IF a <= b THEN a ELSE b

\* the call is over
Finished(c) == pc[c] \in {"returned", "raised"}

\* the source of the call exists and can be listed
Listable(c) == input[c].source_ok /\ input[c].is_dir

\* a batch with at least one item and a worker count >= 1 has returned
BatchReturned(c) ==
  /\ pc[c] = "returned"
  /\ input[c].source_ok
  /\ image_files[c] # << >>
  /\ input[c].max_workers >= 1

\* the positions of the result list that hold the outcome of item i
OutcomesOf(c, i) == { k \in DOMAIN yielded[c] : yielded[c][k] = i }

\* C1: when a batch over a non-empty item list with a worker count >= 1
\* returns, the returned list has as many outcomes as there were items and
\* every item owns exactly one of them (the outcome at the position at which
\* its future was yielded, carrying its stem), whatever the completion order
\* and whichever uploads failed.
C1_OneOutcomePerItem ==
  \A c \in callers : BatchReturned(c) =>
    /\ ~ret[c].raised
    /\ Len(ret[c].value) = Len(image_files[c])
    /\ Len(yielded[c]) = Len(ret[c].value)
    /\ \A i \in 1..Len(image_files[c]) : Cardinality(OutcomesOf(c, i)) = 1
    /\ \A k \in DOMAIN ret[c].value :
         /\ yielded[c][k] \in 1..Len(image_files[c])
         /\ ret[c].value[k].local_filename = Stem(image_files[c][yielded[c][k]].name)

\* a returned batch of three items on two workers, yielded out of submission
\* order, with one success, one failed upload and one raising future
C1_Witness ==
  \E c \in callers :
    /\ BatchReturned(c)
    /\ Len(image_files[c]) = 3
    /\ input[c].max_workers = 2
    /\ yielded[c][1] # 1
    /\ \E i, j, k \in DOMAIN futures[c] :
         /\ futures[c][i].exc # NoExc
         /\ futures[c][j].result.status = "failed"
         /\ futures[c][k].result.status = "success"

\* C2: when a batch returns, successful + failed = total.
C2_StatsCompleteAtReturn ==
  \A c \in callers : BatchReturned(c) =>
    upload_stats.successful + upload_stats.failed = upload_stats.total

\* the batch is between the reset of the statistics and its return
Running(c) == pc[c] \in {"executor", "submit", "collect", "lock", "update"}

\* C3: successful + failed never exceeds total, and from the reset of the
\* statistics to the return of the batch total is the number of submitted
\* items.
C3_CountersWithinTotal ==
  /\ upload_stats.successful + upload_stats.failed <= upload_stats.total
  /\ \A c \in callers :
       (Running(c) \/ BatchReturned(c)) => upload_stats.total = Len(image_files[c])

\* a running batch of three items with one success and one failure counted
C3_Witness ==
  \E c \in callers :
    /\ Running(c)
    /\ upload_stats.total = 3
    /\ upload_stats.successful = 1
    /\ upload_stats.failed = 1

\* C4: once the call is over no upload is queued or running, and a batch
\* that started its executor returns one outcome per item, never a partial
\* list.
C4_ReturnsAfterAllOutcomes ==
  \A c \in callers : Finished(c) =>
    /\ \A i \in DOMAIN futures[c] : futures[c][i].state = "done"
    /\ executor[c] # "open"
    /\ executor[c] = "shutdown" =>
         /\ Len(futures[c]) = Len(image_files[c])
         /\ Len(ret[c].value) = Len(image_files[c])

\* a batch of three items on two workers has returned
C4_Witness ==
  \E c \in callers :
    /\ pc[c] = "returned"
    /\ executor[c] = "shutdown"
    /\ input[c].max_workers = 2
    /\ Len(ret[c].value) = 3

\* C5: a call with a worker count >= 1 on a source that can be listed never
\* raises, a call that raises has attempted no item, and when a batch
\* returns every item was attempted once and is reported: an item struck by
\* an exception has a failed outcome carrying str(e) of that exception, every
\* other item a success outcome.
C5_ItemFailureIsAnOutcome ==
  \A c \in callers :
    /\ pc[c] = "raised" =>
         /\ input[c].max_workers <= 0 \/ ~input[c].is_dir
         /\ futures[c] = << >>
    /\ BatchReturned(c) =>
         \A i \in 1..Len(image_files[c]) :
           /\ futures[c][i].uploads + futures[c][i].links >= 1
           /\ \E k \in OutcomesOf(c, i) :
                IF futures[c][i].fault # NoExc
                  THEN /\ ret[c].value[k].status = "failed"
                       /\ ret[c].value[k].error = StrOfExc(futures[c][i].fault)
                  ELSE ret[c].value[k].status = "success"

\* a returned batch in which one upload failed, one future raised and a
\* third item was uploaded all the same
C5_Witness ==
  \E c \in callers :
    /\ BatchReturned(c)
    /\ \E i, j, k \in DOMAIN futures[c] :
         /\ futures[c][i].fault = UploadError
         /\ futures[c][j].exc = WorkerCrash
         /\ futures[c][k].fault = NoExc

\* the folder a batch uploads to
FolderOf(c) == IF input[c].origin = "local" THEN LocalFolder ELSE DropboxFolder

\* C6: every outcome of a result list has status success or failed; it is
\* failed exactly when its cloudinary_url is UPLOAD_FAILED and exactly when
\* its error is not None; a success carries the secure_url the store
\* returned for its item.
C6_OutcomesWellFormed ==
  \A c \in callers : \A k \in DOMAIN results[c] :
    LET o == results[c][k] IN
      /\ o.status \in {"success", "failed"}
      /\ o.status = "failed" <=> o.cloudinary_url = UPLOAD_FAILED
      /\ o.status = "failed" <=> o.error # None
      /\ o.status = "success" =>
           /\ o.cloudinary_url = futures[c][yielded[c][k]].returned
           /\ o.cloudinary_url =
                SecureUrl(FolderOf(c), Stem(image_files[c][yielded[c][k]].name))

\* a result list holding a success, a failed upload and a raising future
C6_Witness ==
  \E c \in callers : \E k1, k2, k3 \in DOMAIN results[c] :
    /\ results[c][k1].status = "success"
    /\ results[c][k2].error = StrOfExc(UploadError)
    /\ results[c][k3].error = StrOfExc(WorkerCrash)

\* C7: a call with a worker count <= 0 on a source that can be listed ends
\* by raising an invalid-argument error to its caller, for both origins and
\* for an empty item list too, with no upload invoked.
C7_NonPositiveWorkersRejected ==
  \A c \in callers :
    (Finished(c) /\ Listable(c) /\ input[c].max_workers <= 0) =>
    /\ ret[c].raised
    /\ ret[c].exc = ValueError
    /\ futures[c] = << >>

\* C8: a call whose enumeration finds no image file returns the empty list
\* without creating an executor, submitting a future, requesting a link or
\* uploading anything.
C8_EmptyListReturnsAtOnce ==
  \A c \in callers :
    (Listable(c) /\ pc[c] # "idle" /\ image_files[c] = << >>) =>
      /\ pc[c] = "returned"
      /\ ~ret[c].raised
      /\ ret[c].value = << >>
      /\ executor[c] = "none"
      /\ futures[c] = << >>
      /\ store = {}

\* a listing that holds entries, none of them an image file, was enumerated
C8_Witness ==
  \E c \in callers :
    /\ input[c].source_ok
    /\ input[c].entries >= 1
    /\ pc[c] = "returned"
    /\ image_files[c] = << >>

\* the outcomes the statistics have counted: those of the result list whose
\* future returned, but for the one appended and not yet counted
CountedUpTo(c) ==
  IF pc[c] \in {"lock", "update"} THEN Len(results[c]) - 1 ELSE Len(results[c])
CountedFailures(c) ==
  { k \in 1..CountedUpTo(c) :
      results[c][k].status = "failed" /\ futures[c][yielded[c][k]].exc = NoExc }
RankIn(S, k) == Cardinality({ j \in S : j <= k })

C10_AtMostWorkerCountInFlight ==
  \A c \in callers :
    /\ Cardinality(InFlight(c)) <= IF input[c].max_workers >= 1
                                     THEN input[c].max_workers ELSE 0
    /\ (input[c].max_workers = 1 /\ BatchReturned(c)) =>
         Len(ret[c].value) = Len(image_files[c])

\* two uploads are in flight on two workers while a third item waits
C10_Witness ==
  \E c \in callers :
    /\ input[c].max_workers = 2
    /\ Cardinality(InFlight(c)) = 2
    /\ \E i \in DOMAIN futures[c] : futures[c][i].state = "queued"

\* the files inside a folder entry of a listing: iterdir does not descend
\* into it, so they are no entries of the listing
Children(e) ==
  IF e.kind = "folder"
    THEN { [name |-> [stem |-> e.name.stem, ext |-> ".jpg"], kind |-> "file"] }
    ELSE {}

\* the suffixes the selection is documented to accept, in either case
SupportedAnyCase ==
  { ".jpg", ".JPG", ".jpeg", ".JPEG", ".png", ".PNG", ".gif", ".GIF",
    ".bmp", ".BMP", ".webp", ".WEBP", ".svg", ".SVG" }
ShouldSelect(e) == e.kind = "file" /\ e.name.ext \in SupportedAnyCase

ListingOf(c) == Listing(input[c].first, input[c].entries)
Elements(seq) == { seq[i] : i \in DOMAIN seq }

\* C11: local enumeration selects exactly the regular files of the listing
\* whose suffix is, in either case, one of the seven image suffixes, in
\* listing order; no folder, no file with another suffix and no file inside
\* a folder is selected, and every selected file is submitted.
C11_LocalEnumerationSelectsImages ==
  \A c \in callers :
    (input[c].origin = "local" /\ Listable(c) /\ pc[c] # "idle") =>
      /\ image_files[c] = SelectSeq(ListingOf(c), ShouldSelect)
      /\ \A e \in Elements(ListingOf(c)) :
           Children(e) \cap Elements(image_files[c]) = {}
      /\ (pc[c] \in {"collect", "lock", "update"} \/ BatchReturned(c)) =>
           Len(futures[c]) = Len(image_files[c])

\* a returned local batch over 1.PNG, 2.txt, 2.jpeg and the folder 3.jpg
C11_Witness ==
  \E c \in callers :
    /\ input[c].origin = "local"
    /\ BatchReturned(c)
    /\ \E i, j, k \in DOMAIN ListingOf(c) :
         /\ ListingOf(c)[i].name.ext = ".PNG"
         /\ ListingOf(c)[j].name.ext = ".txt"
         /\ ListingOf(c)[k].kind = "folder"
    /\ Len(image_files[c]) = 2

\* C12: remote enumeration follows the continuation pages: every image file
\* of the folder, on whichever page of its listing, is among the enumerated
\* items, once and in listing order.
C12_RemoteEnumerationFollowsPages ==
  \A c \in callers :
    (input[c].origin = "dropbox" /\ input[c].source_ok /\ pc[c] # "idle") =>
      image_files[c] = SelectSeq(ListingOf(c), IsImageFile)

\* no executor was created, no item submitted, nothing uploaded
NothingStarted(c) ==
  /\ executor[c] = "none"
  /\ futures[c] = << >>
  /\ image_files[c] = << >>
  /\ store = {}

C20_LinkBeforeUpload ==
  \A c \in callers :
    input[c].origin = "dropbox" =>
      /\ \A i \in DOMAIN futures[c] :
           LET fut == futures[c][i] IN
             /\ fut.uploads <= fut.links
             /\ fut.links <= 1
             /\ fut.uploads >= 1 => fut.link = TempLink(image_files[c][i].name)
             /\ fut.fault = LinkError =>
                  /\ fut.uploads = 0
                  /\ fut.state = "done"
                  /\ fut.result.status = "failed"
                  /\ fut.result.error = StrOfExc(LinkError)
                  /\ \A k \in OutcomesOf(c, i) : results[c][k].status = "failed"
      /\ \A o \in store :
           \E i \in DOMAIN futures[c] :
             /\ o.source = futures[c][i].link
             /\ o.public_id = Stem(image_files[c][i].name)
             /\ futures[c][i].fault # LinkError

\* a Dropbox batch returned in which one link request failed and another
\* item was uploaded from its link
C20_Witness ==
  \E c \in callers :
    /\ input[c].origin = "dropbox"
    /\ BatchReturned(c)
    /\ \E i, j \in DOMAIN futures[c] :
         /\ futures[c][i].fault = LinkError
         /\ futures[c][j].uploads = 1
         /\ futures[c][j].fault = NoExc
    /\ store # {}

\* the destination identifier of an object or of an item
KeyOf(o) == << o.folder, o.public_id >>
Keys(s) == { KeyOf(o) : o \in s }
ItemKey(c, i) == << FolderOf(c), Stem(image_files[c][i].name) >>

\* the identifiers the items of the listing of a call map to
ItemKeys(c) ==
  { << FolderOf(c), Stem(e.name) >> : e \in { x \in Elements(ListingOf(c)) : IsImageFile(x) } }

\* the identifiers of the items the current run has uploaded
UploadedKeys(c) ==
  { ItemKey(c, i) : i \in { j \in DOMAIN futures[c] :
                              futures[c][j].uploads = 1 /\ futures[c][j].fault = NoExc } }

\* C17: a request repeated with the same items leaves no duplicates in the
\* store: the store never holds two objects under one identifier, every
\* identifier is the folder with the stem of an item, and when the repeated
\* batch returns the identifiers present are those the first run left
\* together with those of the items it uploaded itself; so when it uploaded
\* no item the first run had not, the set is the one the first run left.
C17_RerunIdempotent ==
  \A c \in callers :
    /\ \A o1, o2 \in store : KeyOf(o1) = KeyOf(o2) => o1 = o2
    /\ Keys(store) \subseteq ItemKeys(c)
    /\ Keys(store_before) \subseteq Keys(store)
    /\ (runs[c] = 2 /\ BatchReturned(c)) =>
         /\ Keys(store) = Keys(store_before) \cup UploadedKeys(c)
         /\ UploadedKeys(c) \subseteq Keys(store_before) =>
              /\ Keys(store) = Keys(store_before)
              /\ Cardinality(store) = Cardinality(store_before)

\* the repeated batch returned, each run having uploaded all three images
\* 1.jpg, 1.PNG and 2.jpeg
C17_Witness ==
  \E c \in callers :
    /\ runs[c] = 2
    /\ BatchReturned(c)
    /\ Len(image_files[c]) = 3
    /\ Keys(store_before) = ItemKeys(c)
    /\ UploadedKeys(c) = ItemKeys(c)
    /\ Cardinality(store) = 2

\* the outcomes of a status in a result list
OutcomesWith(list, status) == { k \in DOMAIN list : list[k].status = status }

\* C18: the statistics a batch prints in its summary are those of its own
\* items: the total is the number of its items, successful and failed are
\* the numbers of its success and failed outcomes, and every error sample
\* is the error of one of its failed outcomes.
C18_SummaryIsOfOwnBatch ==
  \A c \in callers :
    BatchReturned(c) =>
      /\ summary[c].total = Len(image_files[c])
      /\ summary[c].successful = Cardinality(OutcomesWith(ret[c].value, "success"))
      /\ summary[c].failed = Cardinality(OutcomesWith(ret[c].value, "failed"))
      /\ Len(summary[c].errors) = Min(summary[c].failed, MaxErrorSamples)

\* ======================================================= database_service
\* ---------------------------------------------------------------- strings
\* the characters str.strip() removes
Whitespace == {" ", "\n", "\r"}

\* the empty string ''
EmptyStr == << >>

\* NULL of a column, None in a fetched row
DbNull == << "NULL" >>

\* the three characters "..."
Ellipsis == << ".", ".", "." >>

\* str.strip()
Strip(s) ==
  LET idx == { i \in DOMAIN s : s[i] \notin Whitespace }
      fromEnd == { Len(s) + 1 - i : i \in idx } IN
    IF idx = {} THEN EmptyStr
    ELSE SubSeq(s, CHOOSE i \in idx : \A j \in idx : i <= j,
                   Len(s) + 1 - (CHOOSE d \in fromEnd : \A e \in fromEnd : d <= e))

\* str.replace(from, to) for single characters
ReplaceChar(s, from, to) == [i \in DOMAIN s |-> IF s[i] = from THEN to ELSE s[i]]

\* The left-to-right scan of str.replace('  ', ' ') over s[lo..hi]: a space
\* is copied and makes the scan drop the character after it when that is a
\* space too. pending says that the character before lo was such a space.
RECURSIVE Scan(_, _, _, _)
Scan(s, lo, hi, pending) ==
  IF lo > hi THEN [out |-> << >>, pending |-> pending]
  ELSE IF lo = hi
    THEN IF s[lo] = " " /\ pending
           THEN [out |-> << >>, pending |-> FALSE]
           ELSE [out |-> << s[lo] >>, pending |-> (s[lo] = " ")]
    ELSE LET mid == (lo + hi) \div 2
             left == Scan(s, lo, mid, pending)
             right == Scan(s, mid + 1, hi, left.pending) IN
           [out |-> left.out \o right.out, pending |-> right.pending]

\* str.replace('  ', ' ')
CollapseDoubleSpaces(s) == Scan(s, 1, Len(s), FALSE).out

\* result[0].strip().replace('\n', ' ').replace('\r', ' ').replace('  ', ' ')
\* (226, 253, 280, 307)
Normalise(v) ==
  CollapseDoubleSpaces(ReplaceChar(ReplaceChar(Strip(v), "\n", " "), "\r", " "))

\* the cut without the marker
TruncateNoEllipsis(text, budget) ==
  IF Len(text) > budget THEN SubSeq(text, 1, budget) ELSE text

\* text[:budget] + "..." if len(text) > budget else text (227, 254, 281, 308)
Truncate(text, budget) ==
  IF Len(text) > budget THEN SubSeq(text, 1, budget) \o Ellipsis ELSE text

\* ------------------------------------------------ characteristic lookups
IngredientsBudget == 1000
ColorBudget == 500
CareAdviceBudget == 500
CompositionBudget == 200
IngredientsMinLength == 20
ColorMinLength == 20
CareAdviceMinLength == 10
CompositionMinLength == 5

Fields ==
  { "capacity", "dlc", "weight", "dimensions", "motif", "ddm",
    "ingredients", "color", "care_advice", "composition" }

\* The product data of a lookup: product_group_id, and per field the values
\* dv.valeur of the rows of the product group whose key matches the field,
\* in the order of pgc.position; db_ok is FALSE when the cursor raises.
NoRows == [f \in Fields |-> << >>]

\* result[0].strip() if result and result[0] else "": the first selected
\* row, stripped, whatever its length (82-85, 105-108, 128-131, 151-154,
\* 174-177, 197-200)
FirstStripped(rows) ==
  IF rows # << >> /\ rows[1] # DbNull /\ rows[1] # EmptyStr
    THEN Strip(rows[1]) ELSE EmptyStr

\* AND dv.valeur IS NOT NULL AND LENGTH(dv.valeur) > min
LongerThan(rows, min) ==
  LET Keep(v) == v # DbNull /\ Len(v) > min IN SelectSeq(rows, Keep)

\* the try block of a lookup: "" without product group, "" when the
\* database raises
Guarded(pd, value) ==
  IF pd.product_group_id = 0 THEN EmptyStr
  ELSE IF ~pd.db_ok THEN EmptyStr
  ELSE value

\* AND dv.valeur IS NOT NULL AND dv.valeur != '' ... LIMIT 1 (63-87)
get_capacity_from_product(pd) ==
  LET Keep(v) == v # DbNull /\ v # EmptyStr IN
    Guarded(pd, FirstStripped(SelectSeq(pd.rows["capacity"], Keep)))

get_dlc_from_product(pd) == Guarded(pd, FirstStripped(pd.rows["dlc"]))

get_weight_from_product(pd) == Guarded(pd, FirstStripped(pd.rows["weight"]))

get_dimensions_from_product(pd) == Guarded(pd, FirstStripped(pd.rows["dimensions"]))

get_motif_from_product(pd) == Guarded(pd, FirstStripped(pd.rows["motif"]))

get_ddm_from_product(pd) == Guarded(pd, FirstStripped(pd.rows["ddm"]))

\* the first selected row, normalised and cut to the budget (222-228,
\* 249-255, 276-282)
FirstCut(rows, budget) ==
  IF rows # << >> /\ rows[1] # DbNull /\ rows[1] # EmptyStr
    THEN Truncate(Normalise(rows[1]), budget) ELSE EmptyStr

get_ingredients_from_product(pd) ==
  Guarded(pd, FirstCut(LongerThan(pd.rows["ingredients"], IngredientsMinLength),
                       IngredientsBudget))

get_color_from_product(pd) ==
  Guarded(pd, FirstCut(LongerThan(pd.rows["color"], ColorMinLength), ColorBudget))

get_care_advice_from_product(pd) ==
  Guarded(pd, FirstCut(LongerThan(pd.rows["care_advice"], CareAdviceMinLength),
                       CareAdviceBudget))

\* LIMIT 3, fetchall, results[composition_number - 1] (286-311)
get_composition_from_product(pd, composition_number) ==
  LET selected == LongerThan(pd.rows["composition"], CompositionMinLength)
      fetched == IF Len(selected) > 3 THEN SubSeq(selected, 1, 3) ELSE selected IN
    Guarded(pd, IF fetched # << >> /\ Len(fetched) >= composition_number
                  THEN Truncate(Normalise(fetched[composition_number]), CompositionBudget)
                  ELSE EmptyStr)

\* ---- the inputs of a lookup
\* the lengths of the stored values: around the length filters of the
\* queries and around the budgets
ValueLengths ==
  { 0, 4, 6, 11, 21, 22, 199, 200, 201, 202, 203, 500, 501, 502, 503,
    1000, 1001, 1002, 1003 }

Shapes == { "plain", "padded", "newline", "spaces" }

\* A stored value of n characters: letters only; a blank before and after
\* the letters; a newline after the first letter; three blanks after the
\* first letter.
Val(shape, n) ==
  [ i \in 1..n |->
      CASE shape = "padded" /\ (i = 1 \/ i = n) -> " "
        [] shape = "newline" /\ i = 2 -> "\n"
        [] shape = "spaces" /\ i \in {2, 3, 4} -> " "
        [] OTHER -> "a" ]

StoredValues == { Val(sh, n) : sh \in Shapes, n \in ValueLengths } \cup { DbNull }

\* the rows of the looked-up key: none, one, or one after a row the query
\* may pass over (a NULL, a value of four letters)
StoredRows ==
  { << >> } \cup { << v >> : v \in StoredValues }
            \cup { << u, v >> : u \in { DbNull, Val("plain", 4) }, v \in StoredValues }

LookupCalls ==
  { [ field |-> f, number |-> 1,
      pd |-> [ product_group_id |-> 7, db_ok |-> TRUE,
               rows |-> [NoRows EXCEPT ![f] = r] ] ] :
      f \in Fields, r \in StoredRows }
  \cup
  { [ field |-> "composition", number |-> n,
      pd |-> [ product_group_id |-> 7, db_ok |-> TRUE,
               rows |-> [NoRows EXCEPT !["composition"] =
                           << Val("plain", 6), Val("plain", 4), Val("padded", 203),
                              Val("plain", 11), Val("plain", 21) >>] ] ] :
      n \in 1..3 }
  \cup
  { [ field |-> f, number |-> 1,
      pd |-> [ product_group_id |-> g, db_ok |-> ok,
               rows |-> [NoRows EXCEPT ![f] = << Val("plain", 21) >>] ] ] :
      f \in Fields, g \in {0, 7}, ok \in BOOLEAN }

InitLookup ==
  /\ InitWith({}, {})
  /\ ExportIdle
  /\ RestIdle
  /\ lookup_call \in LookupCalls
  /\ lookup_result = None

\* a lookup is called and returns
Returns(field, value) ==
  /\ lookup_result = None
  /\ lookup_call.field = field
  /\ lookup_result' = [value |-> value]
  /\ UNCHANGED << lookup_call, batchvars, exportvars, restvars >>

GetCapacity == Returns("capacity", get_capacity_from_product(lookup_call.pd))
GetDlc == Returns("dlc", get_dlc_from_product(lookup_call.pd))
GetWeight == Returns("weight", get_weight_from_product(lookup_call.pd))
GetDimensions == Returns("dimensions", get_dimensions_from_product(lookup_call.pd))
GetMotif == Returns("motif", get_motif_from_product(lookup_call.pd))
GetDdm == Returns("ddm", get_ddm_from_product(lookup_call.pd))
GetIngredients == Returns("ingredients", get_ingredients_from_product(lookup_call.pd))
GetColor == Returns("color", get_color_from_product(lookup_call.pd))
GetCareAdvice == Returns("care_advice", get_care_advice_from_product(lookup_call.pd))
GetComposition ==
  Returns("composition", get_composition_from_product(lookup_call.pd, lookup_call.number))

NextLookup ==
  \/ GetCapacity
  \/ GetDlc
  \/ GetWeight
  \/ GetDimensions
  \/ GetMotif
  \/ GetDdm
  \/ GetIngredients
  \/ GetColor
  \/ GetCareAdvice
  \/ GetComposition

SpecLookup == InitLookup /\ [][NextLookup]_vars

\* ---- claims on the lookups
\* the fields whose lookup cuts its value, with the budget and the length a
\* value must exceed to be selected
CutFields == { "ingredients", "color", "care_advice", "composition" }
BudgetOf(f) ==
  CASE f = "ingredients" -> 1000 [] f = "color" -> 500
    [] f = "care_advice" -> 500 [] OTHER -> 200
MinLengthOf(f) ==
  CASE f = "ingredients" -> 20 [] f = "color" -> 20
    [] f = "care_advice" -> 10 [] OTHER -> 5

\* a lookup has returned that found one stored value, not NULL, for a
\* product with a product group and a database that answers
LookedUpOne ==
  /\ lookup_call # None
  /\ lookup_result # None
  /\ lookup_call.pd.product_group_id # 0
  /\ lookup_call.pd.db_ok
  /\ Len(lookup_call.pd.rows[lookup_call.field]) = 1
  /\ lookup_call.pd.rows[lookup_call.field][1] # DbNull

TheValue == lookup_call.pd.rows[lookup_call.field][1]

\* the budgets the fields are said to have: between 200 and 1000 characters
SaidBudgets == { 200, 500, 1000 }

\* C16 as stated: every field has a budget; a stored value longer than the
\* budget comes back as its first budget characters followed by "...", a
\* value within the budget comes back unchanged.
C16_EveryFieldCutToBudget ==
  LookedUpOne =>
    \E b \in SaidBudgets :
      /\ lookup_call.field \in CutFields => b = BudgetOf(lookup_call.field)
      /\ IF Len(TheValue) > b
           THEN lookup_result.value = SubSeq(TheValue, 1, b) \o Ellipsis
           ELSE lookup_result.value = TheValue

\* the letters of a stored value of a shape and a length after strip(),
\* the newline replaced and the double blank collapsed
Letters(n) == [i \in 1..n |-> "a"]
Cleaned(shape, n) ==
  CASE n = 0 -> EmptyStr
    [] shape = "plain" -> Letters(n)
    [] shape = "padded" -> Letters(n - 2)
    [] shape = "newline" /\ n >= 3 -> << "a", " " >> \o Letters(n - 2)
    [] shape = "spaces" /\ n >= 5 -> << "a", " ", " " >> \o Letters(n - 4)
    [] OTHER -> << "a" >>

\* C16, amended: ingredients (1000), color (500), care advice (500) and
\* composition (200) select only a value longer than 20, 20, 10 and 5
\* characters, strip it, turn newlines into blanks and double blanks into
\* single ones, and return that text whole when it is within the budget and
\* its first budget characters followed by "..." when it is longer;
\* capacity, DLC, weight, dimensions, motif and DDM have no budget and
\* return the stripped value whole, whatever its length.
C16_CutFieldsCutToBudget ==
  LookedUpOne =>
    \A sh \in Shapes, n \in ValueLengths :
      TheValue = Val(sh, n) =>
        LET f == lookup_call.field
            out == lookup_result.value
            text == Cleaned(sh, n) IN
          IF f \in CutFields
            THEN /\ n <= MinLengthOf(f) => out = EmptyStr
                 /\ (n > MinLengthOf(f) /\ Len(text) <= BudgetOf(f)) => out = text
                 /\ (n > MinLengthOf(f) /\ Len(text) > BudgetOf(f)) =>
                      /\ Len(out) = BudgetOf(f) + 3
                      /\ SubSeq(out, 1, BudgetOf(f)) = SubSeq(text, 1, BudgetOf(f))
                      /\ SubSeq(out, BudgetOf(f) + 1, BudgetOf(f) + 3) = Ellipsis
            ELSE /\ sh = "plain" => out = TheValue
                 /\ sh = "padded" => out = Letters(n - 2)
                 /\ sh \in {"newline", "spaces"} =>
                      out = (IF n = 4 /\ sh = "spaces" THEN << "a" >> ELSE TheValue)

\* the ingredients lookup returned a text of 1001 letters cut to 1000
C16_Witness ==
  /\ LookedUpOne
  /\ lookup_call.field = "ingredients"
  /\ TheValue = Val("plain", 1001)
  /\ Len(lookup_result.value) = 1003

\* ------------------------------------------------ export_comprehensive_csv
\* display_headers (417-427); the accented letters are written without
\* their accents
display_headers ==
  << Str("Category"), Str("Shop sku"), Str("Titre du produit"), Str("Marque"),
     Str("Description Longue"), Str("EAN"), Str("Couleur commercial"),
     Str("Image principale"), Str("image secondaire"), Str("Image 3"), Str("Image 4"),
     Str("Image 5"), Str("Image 6"), Str("Image 7"), Str("Image 8"), Str("Image 9"),
     Str("Image_10"), Str("Produit Parent (identification)"), Str("Id de rattachement"),
     Str("Composition 1"), Str("Composition 2"), Str("Composition 3"),
     Str("Conseil d'entretien"), Str("Capacite"), Str("Dimensions"),
     Str("DLC (Date limite de consommation)"), Str("DDM (Date de durabilite minimale)"),
     Str("Ingredients"), Str("Poids net du produit"), Str("Motif"),
     Str("Garantie commerciale"), Str("Eco-responsable"), Str("Metrage ? (oui /non)"),
     Str("Produit ou Service"), Str("BZC ( a ne pas remplir )"),
     Str("Poids du colis (kg)"), Str("Taille unique") >>

\* technical_mappings (429-439)
technical_mappings ==
  << Str("family_id"), Str("shop_sku"), Str("name"), Str("brand_id"), Str("description"),
     Str("ean"), Str("technical_spec_1_color"), Str("media_1"), Str("media_2"),
     Str("media_3"), Str("media_4"), Str("media_5"), Str("media_6"), Str("media_7"),
     Str("media_8"), Str("media_9"), Str("media_10"), Str("is_parent"),
     Str("variant_group_code"), Str("technical_spec_1_composition"),
     Str("technical_spec_2_composition"), Str("technical_spec_3_composition"),
     Str("technical_spec_1_care_advice"), Str("technical_spec_1_capacity"),
     Str("technical_spec_1_dimensions"), Str("technical_spec_1_expiration_date"),
     Str("technical_spec_1_durability_date"), Str("technical_spec_1_ingredients"),
     Str("technical_spec_1_net_weight"), Str("technical_spec_1_pattern"),
     Str("technical_spec_1_commercial_warranty"),
     Str("technical_spec_1_eco_responsibility"), Str("is_cloth"), Str("is_virtual"),
     Str("is_bzc"), Str("weight"), Str("size_id") >>

\* list.index(x)
IndexOf(list, x) == CHOOSE i \in DOMAIN list : list[i] = x /\ \A j \in 1..(i - 1) : list[j] # x

\* str.lower() on the letters of the model
LowerStr(s) ==
  [ i \in DOMAIN s |-> CASE s[i] = "A" -> "a" [] s[i] = "B" -> "b" [] OTHER -> s[i] ]

\* needle in hay
SubstringOf(needle, hay) ==
  \E i \in 0..(Len(hay) - Len(needle)) : SubSeq(hay, i + 1, i + Len(needle)) = needle

\* [code.strip() for code in ... if code.strip()] (routes/search.py:40, 60)
\* and [str(x).strip() for x in filter if str(x).strip()] (380, 388)
RECURSIVE Clean(_)
Clean(codes) ==
  IF codes = << >> THEN << >>
  ELSE IF Strip(Head(codes)) = EmptyStr THEN Clean(Tail(codes))
  ELSE << Strip(Head(codes)) >> \o Clean(Tail(codes))

\* ---- the catalog
\* A product of produits_view3 with status 'on' as the query selects it:
\* without images, brand or description; rows holds its characteristics.
Product(id, ean, ref, group, rows) ==
  [ idproduit |-> id, ean |-> ean, ref |-> ref, titre |-> << "Produit", id >>,
    product_group_id |-> group, db_ok |-> TRUE, rows |-> rows ]

ProductPool ==
  { Product("1", << "1" >>, << "a", "b" >>, 7,
            [NoRows EXCEPT !["capacity"] = << << " ", "1", "L" >> >>,
                           !["composition"] = << Val("plain", 6), Val("padded", 8) >>]),
    Product("2", << "1" >>, << "a" >>, 0, NoRows),
    Product("3", << "3" >>, << "b" >>, 0, NoRows) }

\* the catalogs: up to MaxProducts different products, in the order in
\* which the database returns its rows
Catalogs ==
  { cat \in UNION { [1..n -> ProductPool] : n \in 0..MaxProducts } :
      \A i, j \in DOMAIN cat : i # j => cat[i] # cat[j] }

\* the code lists a request may carry, before they are stripped
CodeLists(pool) == UNION { [1..n -> pool] : n \in 0..MaxCodes }

ExportInputs ==
  [ search_type : {"ean"},
    codes : CodeLists({ << "1" >>, << "2" >>, << " ", "1" >>, << " " >> }),
    catalog : Catalogs, db_ok : BOOLEAN ]
  \cup
  [ search_type : {"ref"},
    codes : CodeLists({ << "a" >>, << "a", "b" >>, << "A" >>, << " " >> }),
    catalog : Catalogs, db_ok : BOOLEAN ]

InitExport ==
  /\ InitWith({}, {})
  /\ LookupIdle
  /\ RestIdle
  /\ ex_call \in ExportInputs
  /\ ex_pc = "idle"
  /\ clean_codes = << >>
  /\ products = << >>
  /\ found_by_code = << >>
  /\ found_codes = << >>
  /\ not_found_codes = << >>
  /\ csv_files = << >>
  /\ ex_ret = None

\* ean_filter is given (search by EAN), else ref_filter is
ByEan == ex_call.search_type = "ean"

\* AND p.ean IN (...) (382-383), AND (p.ref LIKE %s OR ...) with the
\* parameters %code% (390-391, 405); LIKE compares without regard to case
Selects(ean, codes, p) ==
  \E k \in DOMAIN codes :
    IF ean THEN p.ean = codes[k]
           ELSE SubstringOf(LowerStr(codes[k]), LowerStr(p.ref))

\* found_by_code[key].append(prod), the list created when missing
Put(fbc, key, prod) ==
  IF key \in DOMAIN fbc THEN [fbc EXCEPT ![key] = Append(@, prod)]
  ELSE fbc @@ (key :> << prod >>)

\* a product attributed to the codes its reference contains only
RECURSIVE AttributeRefOneWay(_, _, _)
AttributeRefOneWay(fbc, prod, codes) ==
  IF codes = << >> THEN fbc
  ELSE LET input_code == Head(codes)
           code_key == prod.ref
           hit == SubstringOf(LowerStr(input_code), LowerStr(code_key)) IN
         AttributeRefOneWay(IF hit THEN Put(fbc, input_code, prod) ELSE fbc, prod, Tail(codes))

\* for input_code in clean_codes: if input_code.lower() in code_key.lower()
\* or code_key.lower() in input_code.lower(): ... append(prod) (491-496)
RECURSIVE AttributeRef(_, _, _)
AttributeRef(fbc, prod, codes) ==
  IF codes = << >> THEN fbc
  ELSE LET input_code == Head(codes)
           code_key == prod.ref
           hit == \/ SubstringOf(LowerStr(input_code), LowerStr(code_key))
                  \/ SubstringOf(LowerStr(code_key), LowerStr(input_code)) IN
         AttributeRef(IF hit THEN Put(fbc, input_code, prod) ELSE fbc, prod, Tail(codes))

\* for prod in products: ... (488-501)
RECURSIVE Organized(_, _, _, _)
Organized(fbc, prods, codes, ean) ==
  IF prods = << >> THEN fbc
  ELSE Organized(IF ean THEN Put(fbc, Head(prods).ean, Head(prods))
                        ELSE AttributeRef(fbc, Head(prods), codes),
                 Tail(prods), codes, ean)

\* clean_html of a description that is empty (16-19)
clean_html(text) == IF Strip(text) = EmptyStr THEN EmptyStr ELSE text

\* the row without its last cell
WriteProductRowWithoutSize(prod) ==
  << EmptyStr, prod.ref, prod.titre, Str("Marque inconnue"), clean_html(EmptyStr),
     prod.ean, get_color_from_product(prod),
     EmptyStr, EmptyStr, EmptyStr, EmptyStr, EmptyStr,
     EmptyStr, EmptyStr, EmptyStr, EmptyStr, EmptyStr,
     IF prod.product_group_id > 0 THEN Str("Oui") ELSE Str("Non"), EmptyStr,
     get_composition_from_product(prod, 1), get_composition_from_product(prod, 2),
     get_composition_from_product(prod, 3),
     get_care_advice_from_product(prod), get_capacity_from_product(prod),
     get_dimensions_from_product(prod),
     get_dlc_from_product(prod), get_ddm_from_product(prod),
     get_ingredients_from_product(prod), get_weight_from_product(prod),
     get_motif_from_product(prod),
     EmptyStr, Str("Non"), Str("Non"),
     Str("Produit"), EmptyStr, Str("0") >>

\* write_product_row: data_row (441-473)
WriteProductRow(prod) ==
  << EmptyStr, prod.ref, prod.titre, Str("Marque inconnue"), clean_html(EmptyStr),
     prod.ean, get_color_from_product(prod),
     EmptyStr, EmptyStr, EmptyStr, EmptyStr, EmptyStr,
     EmptyStr, EmptyStr, EmptyStr, EmptyStr, EmptyStr,
     IF prod.product_group_id > 0 THEN Str("Oui") ELSE Str("Non"), EmptyStr,
     get_composition_from_product(prod, 1), get_composition_from_product(prod, 2),
     get_composition_from_product(prod, 3),
     get_care_advice_from_product(prod), get_capacity_from_product(prod),
     get_dimensions_from_product(prod),
     get_dlc_from_product(prod), get_ddm_from_product(prod),
     get_ingredients_from_product(prod), get_weight_from_product(prod),
     get_motif_from_product(prod),
     EmptyStr, Str("Non"), Str("Non"),
     Str("Produit"), EmptyStr, Str("0"), EmptyStr >>

ProductRows(prods) == [ i \in DOMAIN prods |-> WriteProductRow(prods[i]) ]

\* the code written into the first column
EmptyRowInFirstColumn(ean, code) ==
  [ i \in DOMAIN display_headers |-> IF i = 1 THEN code ELSE EmptyStr ]

\* empty_row (515-521, 542-548)
EmptyRow(ean, code) ==
  [ i \in DOMAIN display_headers |->
      IF i = IndexOf(display_headers, IF ean THEN Str("EAN") ELSE Str("Shop sku"))
        THEN code ELSE EmptyStr ]

\* one row for a found code, the row of its first product
RECURSIVE AllRowsOnePerCode(_, _, _)
AllRowsOnePerCode(codes, fbc, ean) ==
  IF codes = << >> THEN << >>
  ELSE (IF Head(codes) \in DOMAIN fbc
          THEN << WriteProductRow(fbc[Head(codes)][1]) >>
          ELSE << EmptyRow(ean, Head(codes)) >>)
       \o AllRowsOnePerCode(Tail(codes), fbc, ean)

\* the loop over clean_codes that writes ALL_products.csv (512-523)
RECURSIVE AllRows(_, _, _)
AllRows(codes, fbc, ean) ==
  IF codes = << >> THEN << >>
  ELSE (IF Head(codes) \in DOMAIN fbc
          THEN ProductRows(fbc[Head(codes)])
          ELSE << EmptyRow(ean, Head(codes)) >>)
       \o AllRows(Tail(codes), fbc, ean)

\* the loop over clean_codes that writes FOUND_products.csv (529-533)
RECURSIVE FoundRows(_, _)
FoundRows(codes, fbc) ==
  IF codes = << >> THEN << >>
  ELSE (IF Head(codes) \in DOMAIN fbc THEN ProductRows(fbc[Head(codes)]) ELSE << >>)
       \o FoundRows(Tail(codes), fbc)

\* the loop over clean_codes that writes NOT_FOUND_products.csv (539-548)
RECURSIVE NotFoundRows(_, _, _)
NotFoundRows(codes, fbc, ean) ==
  IF codes = << >> THEN << >>
  ELSE (IF Head(codes) \notin DOMAIN fbc THEN << EmptyRow(ean, Head(codes)) >> ELSE << >>)
       \o NotFoundRows(Tail(codes), fbc, ean)

\* writer.writerow(display_headers); writer.writerow(technical_mappings)
Written(name, rows) ==
  csv_files' = csv_files @@ (name :> (<< display_headers, technical_mappings >> \o rows))

\* ---- the steps of an export
\* The route export (routes/search.py:22-77): the codes of the request are
\* stripped and the empty ones dropped; without a code left nothing is
\* exported, else export_comprehensive_csv is called with the list as
\* ean_filter or as ref_filter.
ExportRoute ==
  /\ ex_pc = "idle"
  /\ ex_pc' = IF Clean(ex_call.codes) = << >> THEN "rejected" ELSE "called"
  /\ UNCHANGED << ex_call, clean_codes, products, found_by_code, found_codes,
                  not_found_codes, csv_files, ex_ret, batchvars, lookupvars, restvars >>

\* clean_codes, the query and cursor.fetchall() (375-415); an exception of
\* the database goes to the except clause: return None, 0 (595-597)
ExecuteQuery ==
  /\ ex_pc = "called"
  /\ LET codes == Clean(Clean(ex_call.codes)) IN
       IF ex_call.db_ok
         THEN /\ clean_codes' = codes
              /\ products' = SelectSeq(ex_call.catalog,
                                       LAMBDA p : Selects(ByEan, codes, p))
              /\ ex_pc' = "fetched"
              /\ UNCHANGED ex_ret
         ELSE /\ ex_ret' = [export_dir |-> None, counts |-> << 0 >>]
              /\ ex_pc' = "done"
              /\ UNCHANGED << clean_codes, products >>
  /\ UNCHANGED << ex_call, found_by_code, found_codes, not_found_codes, csv_files,
                  batchvars, lookupvars, restvars >>

\* found_by_code (486-501)
Organize ==
  /\ ex_pc = "fetched"
  /\ found_by_code' = Organized(<< >>, products, clean_codes, ByEan)
  /\ ex_pc' = "organized"
  /\ UNCHANGED << ex_call, clean_codes, products, found_codes, not_found_codes,
                  csv_files, ex_ret, batchvars, lookupvars, restvars >>

\* ALL_products.csv (508-523)
WriteAll ==
  /\ ex_pc = "organized"
  /\ Written("ALL", AllRows(clean_codes, found_by_code, ByEan))
  /\ ex_pc' = "all_written"
  /\ UNCHANGED << ex_call, clean_codes, products, found_by_code, found_codes,
                  not_found_codes, ex_ret, batchvars, lookupvars, restvars >>

\* FOUND_products.csv and found_codes (525-533)
WriteFound ==
  /\ ex_pc = "all_written"
  /\ Written("FOUND", FoundRows(clean_codes, found_by_code))
  /\ found_codes' = SelectSeq(clean_codes, LAMBDA code : code \in DOMAIN found_by_code)
  /\ ex_pc' = "found_written"
  /\ UNCHANGED << ex_call, clean_codes, products, found_by_code, not_found_codes,
                  ex_ret, batchvars, lookupvars, restvars >>

\* NOT_FOUND_products.csv, not_found_codes and the return (535-575)
WriteNotFound ==
  /\ ex_pc = "found_written"
  /\ Written("NOT_FOUND", NotFoundRows(clean_codes, found_by_code, ByEan))
  /\ not_found_codes' =
       SelectSeq(clean_codes, LAMBDA code : code \notin DOMAIN found_by_code)
  /\ ex_ret' = [ export_dir |-> Str("export_dir"),
                 counts |-> << Len(found_codes), Len(not_found_codes'), Len(products) >> ]
  /\ ex_pc' = "done"
  /\ UNCHANGED << ex_call, clean_codes, products, found_by_code, found_codes,
                  batchvars, lookupvars, restvars >>

NextExport ==
  \/ ExportRoute
  \/ ExecuteQuery
  \/ Organize
  \/ WriteAll
  \/ WriteFound
  \/ WriteNotFound

SpecExport == InitExport /\ [][NextExport]_vars

\* ---- claims on the export
\* the export has written its three files and returned
Exported == ex_pc = "done" /\ ex_ret.export_dir # None

\* the rows of a file after the two header rows
DataRows(name) == SubSeq(csv_files[name], 3, Len(csv_files[name]))

\* the products of the catalog the query returned
Returned == { p \in Elements(ex_call.catalog) : Selects(ByEan, clean_codes, p) }

\* a returned product counts for a code: its EAN is the code, or its
\* reference holds the code or is held by it, whatever the case of letters
CountsFor(code, p) ==
  IF ByEan THEN p.ean = code
  ELSE \/ SubstringOf(LowerStr(code), LowerStr(p.ref))
       \/ SubstringOf(LowerStr(p.ref), LowerStr(code))

IsFound(code) == \E p \in Returned : CountsFor(code, p)
IsNotFound(code) == ~IsFound(code)

\* the column of the code in a row
CodeColumn == IF ByEan THEN 6 ELSE 2

\* C14: every cleaned code of the request is found or not found, found
\* when a returned product counts for it; the FOUND file has rows of such
\* products only, the NOT_FOUND file one row per not-found code, in request
\* order, empty but for the code in its column, and the two counts returned
\* add up to the number of cleaned codes.
C14_CodesClassified ==
  Exported =>
    /\ clean_codes = Clean(ex_call.codes)
    /\ found_codes = SelectSeq(clean_codes, IsFound)
    /\ not_found_codes = SelectSeq(clean_codes, IsNotFound)
    /\ \A k \in DOMAIN clean_codes :
         (clean_codes[k] \in Elements(found_codes))
           # (clean_codes[k] \in Elements(not_found_codes))
    /\ ex_ret.counts[1] = Len(found_codes)
    /\ ex_ret.counts[2] = Len(not_found_codes)
    /\ ex_ret.counts[1] + ex_ret.counts[2] = Len(clean_codes)
    /\ \A r \in Elements(DataRows("FOUND")) :
         \E code \in Elements(found_codes) : \E p \in Returned :
           CountsFor(code, p) /\ r[2] = p.ref /\ r[6] = p.ean
    /\ Len(DataRows("NOT_FOUND")) = Len(not_found_codes)
    /\ \A k \in DOMAIN not_found_codes :
         \A i \in 1..Len(DataRows("NOT_FOUND")[k]) :
           DataRows("NOT_FOUND")[k][i] =
             (IF i = CodeColumn THEN not_found_codes[k] ELSE EmptyStr)

\* the EAN codes 1 and 2 were searched, 1 was found and 2 was not
C14_Witness ==
  /\ Exported
  /\ ByEan
  /\ clean_codes = << << "1" >>, << "2" >> >>
  /\ ex_ret.counts[1] = 1
  /\ ex_ret.counts[2] = 1
  /\ Len(DataRows("FOUND")) >= 1
  /\ Len(DataRows("NOT_FOUND")) = 1

\* the row of the ALL file for a code that was not found
IsEmptyRowOf(r, code) ==
  \A i \in DOMAIN r : r[i] = (IF i = CodeColumn THEN code ELSE EmptyStr)

\* the row is the row of a returned product that counts for the code
IsProductRowOf(r, code) ==
  \E p \in Returned : CountsFor(code, p) /\ r = WriteProductRow(p)

\* C15 as stated: the ALL file has one data row per requested code, in
\* request order: the row of a product when the code was found, the empty
\* row with the code when it was not.
C15_AllHasOneRowPerCode ==
  Exported =>
    /\ Len(DataRows("ALL")) = Len(clean_codes)
    /\ \A k \in DOMAIN clean_codes :
         IF IsFound(clean_codes[k])
           THEN IsProductRowOf(DataRows("ALL")[k], clean_codes[k])
           ELSE IsEmptyRowOf(DataRows("ALL")[k], clean_codes[k])

\* the number of rows the ALL file gives to the first k codes
RECURSIVE RowsUpTo(_)
RowsUpTo(k) ==
  IF k = 0 THEN 0
  ELSE RowsUpTo(k - 1)
       + (IF clean_codes[k] \in DOMAIN found_by_code
            THEN Len(found_by_code[clean_codes[k]]) ELSE 1)

\* C15, amended: the ALL file has, in request order, one block of data
\* rows per requested code: for a code that was found the rows of all the
\* products that count for it, one or more, and for a code that was not
\* found the one empty row with the code.
C15_AllHasOneBlockPerCode ==
  Exported =>
    /\ Len(DataRows("ALL")) = RowsUpTo(Len(clean_codes))
    /\ \A k \in DOMAIN clean_codes :
         LET code == clean_codes[k]
             block == SubSeq(DataRows("ALL"), RowsUpTo(k - 1) + 1, RowsUpTo(k)) IN
           IF IsFound(code)
             THEN /\ Len(block) >= 1
                  /\ \A r \in Elements(block) : IsProductRowOf(r, code)
                  /\ \A p \in Returned :
                       CountsFor(code, p) => WriteProductRow(p) \in Elements(block)
             ELSE /\ Len(block) = 1
                  /\ IsEmptyRowOf(block[1], code)

\* the EAN codes 1 and 2 were searched, two products have the EAN 1 and
\* none has the EAN 2: the ALL file has three data rows
C15_Witness ==
  /\ Exported
  /\ ByEan
  /\ clean_codes = << << "1" >>, << "2" >> >>
  /\ Len(products) = 2
  /\ Len(DataRows("ALL")) = 3

\* C19 as stated: every file starts with the header of 36 display names
\* and the row of field keys, and every row has the columns of the header.
C19_ThirtySixColumns ==
  \A name \in DOMAIN csv_files :
    /\ csv_files[name][1] = display_headers
    /\ csv_files[name][2] = technical_mappings
    /\ Len(csv_files[name][1]) = 36
    /\ \A k \in DOMAIN csv_files[name] : Len(csv_files[name][k]) = Len(csv_files[name][1])

\* C19, amended: every file starts with the header of 37 display names
\* and the row of the 37 field keys, and every product row and every empty
\* row has 37 columns too.
C19_ThirtySevenColumns ==
  \A name \in DOMAIN csv_files :
    /\ csv_files[name][1] = display_headers
    /\ csv_files[name][2] = technical_mappings
    /\ \A k \in DOMAIN csv_files[name] : Len(csv_files[name][k]) = 37

\* the three files are written, the ALL file with a product row and an
\* empty row
C19_Witness ==
  /\ Exported
  /\ DOMAIN csv_files = {"ALL", "FOUND", "NOT_FOUND"}
  /\ Len(DataRows("FOUND")) >= 1
  /\ Len(DataRows("NOT_FOUND")) >= 1
  /\ Len(DataRows("ALL")) >= 2

\* ------------------------------------------------ claims C21 and later
\* C21 as stated: the counters, the error samples and the result list of a
\* batch change only in a step of a thread that holds stats_lock.
C21_AllMutationsUnderLock ==
  [][ \A c \in callers :
        /\ upload_stats' # upload_stats => stats_lock # 0
        /\ results'[c] # results[c] => stats_lock = c ]_vars

\* C21, amended: after the reset at the start of a batch, the counters and
\* the error samples change only in a step of the thread that holds
\* stats_lock, which then releases it; the lock is taken only when free, so
\* no two updates interleave; the result list of a batch is appended to by
\* its collecting thread alone, before that thread takes the lock.
C21_CountersUnderLock ==
  [][ /\ upload_stats' # upload_stats =>
           \/ \E c \in callers : pc[c] = "idle" /\ pc'[c] = "executor"
           \/ \E c \in callers : /\ stats_lock = c
                                 /\ pc[c] = "update"
                                 /\ stats_lock' = 0
      /\ stats_lock' # stats_lock =>
           \/ stats_lock = 0 /\ \E c \in callers : pc[c] = "lock" /\ stats_lock' = c
           \/ stats_lock' = 0 /\ \E c \in callers : pc[c] = "update" /\ stats_lock = c
      /\ \A c \in callers :
           results'[c] # results[c] =>
             /\ pc[c] \in {"idle", "collect"}
             /\ stats_lock # c
             /\ upload_stats' = upload_stats \/ pc[c] = "idle" ]_vars

\* one batch holds the lock for its update while the other has appended an
\* outcome and waits for the lock
C21_Witness ==
  \E c1, c2 \in callers :
    /\ c1 # c2
    /\ stats_lock = c1
    /\ pc[c1] = "update"
    /\ pc[c2] = "lock"
    /\ Len(results[c2]) >= 1

\* C22: within a batch the upload is invoked at most once for an item, and
\* exactly once for a local item that a worker has finished; an item no
\* worker has taken, or that a worker is still on, has not been uploaded;
\* an item whose upload failed stays failed (no retry), and when the batch
\* has returned every local item has been uploaded exactly once.
C22_UploadedAtMostOnce ==
  \A c \in callers :
    \A i \in DOMAIN futures[c] :
      LET fut == futures[c][i] IN
        /\ fut.uploads <= 1
        /\ fut.links <= 1
        /\ fut.state \in {"queued", "running", "linked"} => fut.uploads = 0
        /\ (input[c].origin = "local" /\ fut.state = "done") => fut.uploads = 1
        /\ (input[c].origin = "dropbox" /\ fut.state = "done") =>
             (fut.uploads = 1 <=> fut.fault # LinkError)
        /\ (BatchReturned(c) /\ input[c].origin = "local") => fut.uploads = 1

\* a local batch of two items has returned, one upload of which failed
C22_Witness ==
  \E c \in callers :
    /\ BatchReturned(c)
    /\ input[c].origin = "local"
    /\ Len(futures[c]) >= 2
    /\ \E i \in DOMAIN futures[c] : futures[c][i].fault = UploadError
    /\ \E i \in DOMAIN futures[c] : futures[c][i].fault = NoExc

\* every outcome of the batch is a success
AllSucceeded(c) ==
  /\ Len(results[c]) = Len(image_files[c])
  /\ \A k \in DOMAIN results[c] : results[c][k].status = "success"

\* C27: when a batch whose uploads all succeeded has returned, the store
\* holds under the destination identifier of every item the content of that
\* item, and no two distinct items of the batch have the same destination
\* identifier.
C27_EveryItemKeepsItsDestination ==
  \A c \in callers :
    (BatchReturned(c) /\ AllSucceeded(c)) =>
      /\ \A i \in DOMAIN image_files[c] :
           \E o \in store : /\ KeyOf(o) = ItemKey(c, i)
                            /\ o.source.name = image_files[c][i].name
      /\ \A i, j \in DOMAIN image_files[c] : i # j => ItemKey(c, i) # ItemKey(c, j)

\* the products attributed to a code
AttributedTo(code) ==
  IF code \in DOMAIN found_by_code THEN Elements(found_by_code[code]) ELSE {}

\* C26: in an export by REF list a returned product is attributed to a
\* requested code exactly when, letters compared without regard to case, the
\* code is a substring of the product's reference or the reference is a
\* substring of the code; the attribution holds for every such code, and a
\* code is reported found exactly when a returned product is attributed to
\* it.
C26_RefAttribution ==
  (~ByEan /\ ex_pc \in {"organized", "all_written", "found_written", "done"}) =>
    /\ \A k \in DOMAIN clean_codes : \A j \in DOMAIN products :
         (products[j] \in AttributedTo(clean_codes[k]))
           <=> (\/ SubstringOf(LowerStr(clean_codes[k]), LowerStr(products[j].ref))
                \/ SubstringOf(LowerStr(products[j].ref), LowerStr(clean_codes[k])))
    /\ \A code \in DOMAIN found_by_code :
         /\ code \in Elements(clean_codes)
         /\ AttributedTo(code) \subseteq Elements(products)
    /\ Exported =>
         \A k \in DOMAIN clean_codes :
           /\ (clean_codes[k] \in Elements(found_codes))
                <=> (AttributedTo(clean_codes[k]) # {})
           /\ (clean_codes[k] \in Elements(not_found_codes))
                <=> (AttributedTo(clean_codes[k]) = {})

\* an export by REF has returned in which a product is attributed to a code
\* its reference is a proper part of, and to a code that differs from its
\* reference in case only
C26_Witness ==
  /\ ~ByEan
  /\ Exported
  /\ \E code \in DOMAIN found_by_code : \E p \in AttributedTo(code) :
       Len(p.ref) < Len(code)
  /\ \E code \in DOMAIN found_by_code : \E p \in AttributedTo(code) :
       p.ref # code /\ LowerStr(p.ref) = LowerStr(code)

\* ------------------------------------------- the local-upload request
\* routes/cloudinary.py, local_upload: the files of the request (entries of
\* them, named as the entries from first on), the worker count of the form,
\* and what the file system does: whether file.save, os.remove and
\* shutil.rmtree succeed.
RouteInputs ==
  [ first : 1..MaxFirst, entries : 0..2, max_workers : 0..MaxWorkers,
    fates : {{"ok", "upload_fail"}},
    save_ok : BOOLEAN, remove_ok : BOOLEAN, rmtree_ok : BOOLEAN ]

\* what the variables outside the request and its batch keep
notroute == << exportvars, lookupvars, foldervars, scanvars, imagevars >>

InitRoute ==
  /\ InitWith({}, {})
  /\ ExportIdle
  /\ LookupIdle
  /\ rt_call \in RouteInputs
  /\ rt_pc = "idle"
  /\ temp_dir = "none"
  /\ output_csv = "none"
  /\ rt_response = "none"
  /\ FoldersIdle
  /\ ScanIdle
  /\ ImagesIdle

\* shutil.rmtree(temp_dir)
Rmtree == IF rt_call.rmtree_ok THEN "deleted" ELSE temp_dir

\* the request up to the files saved (27-54): without files it redirects
\* before a directory is made; an exception of file.save goes to the except
\* clause
Stage ==
  /\ rt_pc = "idle"
  /\ IF rt_call.entries = 0
       THEN /\ rt_response' = "redirect"
            /\ rt_pc' = "done"
            /\ UNCHANGED temp_dir
       ELSE /\ temp_dir' = "exists"
            /\ rt_pc' = IF rt_call.save_ok THEN "staged" ELSE "except"
            /\ UNCHANGED rt_response
  /\ UNCHANGED << rt_call, output_csv, batchvars, notroute >>

\* service = CloudinaryService(); service.upload_from_local(temp_dir, ...)
\* (57-58): a new service and one call on the staging directory
CallUploadFromLocal ==
  /\ rt_pc = "staged"
  /\ rt_pc' = "uploading"
  /\ callers' = {1}
  /\ input' = [c \in {1} |->
                 [ origin |-> "local", first |-> rt_call.first, entries |-> rt_call.entries,
                   source_ok |-> TRUE, is_dir |-> TRUE, paged |-> FALSE,
                   max_workers |-> rt_call.max_workers, fates |-> rt_call.fates,
                   schedule |-> "any" ]]
  /\ pc' = [c \in {1} |-> "idle"]
  /\ image_files' = [c \in {1} |-> << >>]
  /\ executor' = [c \in {1} |-> "none"]
  /\ futures' = [c \in {1} |-> << >>]
  /\ yielded' = [c \in {1} |-> << >>]
  /\ results' = [c \in {1} |-> << >>]
  /\ ret' = [c \in {1} |-> [raised |-> FALSE, value |-> << >>, exc |-> NoExc]]
  /\ upload_stats' = NewStats(0)
  /\ stats_lock' = 0
  /\ summary' = [c \in {1} |-> None]
  /\ runs' = [c \in {1} |-> 1]
  /\ UNCHANGED << store, store_before, rt_call, temp_dir, output_csv, rt_response, notroute >>

\* if results: the CSV file is written and sent, cleanup is registered on
\* the response (60-92)
SendCsv ==
  /\ rt_pc = "uploading"
  /\ pc[1] = "returned"
  /\ ret[1].value # << >>
  /\ output_csv' = "exists"
  /\ rt_response' = "csv"
  /\ rt_pc' = "sent"
  /\ UNCHANGED << rt_call, temp_dir, batchvars, notroute >>

\* results is empty: flash and redirect (60, 94-95)
NoResults ==
  /\ rt_pc = "uploading"
  /\ pc[1] = "returned"
  /\ ret[1].value = << >>
  /\ rt_response' = "redirect"
  /\ rt_pc' = "done"
  /\ UNCHANGED << rt_call, temp_dir, output_csv, batchvars, notroute >>

\* the response is closed: cleanup() (80-90); an exception of os.remove or
\* of shutil.rmtree is caught and printed
Cleanup ==
  /\ rt_pc = "sent"
  /\ IF rt_call.remove_ok
       THEN /\ output_csv' = "deleted"
            /\ temp_dir' = Rmtree
       ELSE UNCHANGED << output_csv, temp_dir >>
  /\ rt_pc' = "done"
  /\ UNCHANGED << rt_call, rt_response, batchvars, notroute >>

\* except Exception (97-110): the directory is removed, a failure of the
\* removal is passed over, and the request redirects
HandleException ==
  /\ \/ rt_pc = "except"
     \/ rt_pc = "uploading" /\ pc[1] = "raised"
  /\ temp_dir' = Rmtree
  /\ rt_response' = "redirect"
  /\ rt_pc' = "done"
  /\ UNCHANGED << rt_call, output_csv, batchvars, notroute >>

NextRoute ==
  \/ Stage
  \/ CallUploadFromLocal
  \/ \E c \in callers : EnterLocal(c)
  \/ \E c \in callers : CreateExecutor(c)
  \/ \E c \in callers : Submit(c)
  \/ \E c \in callers : \E i \in 1..Len(image_files[c]) : WorkerStart(c, i)
  \/ \E c \in callers : \E i \in 1..Len(image_files[c]) : UploadSingleFile(c, i)
  \/ \E c \in callers : \E i \in 1..Len(image_files[c]) : CollectResult(c, i)
  \/ \E c \in callers : AcquireStatsLock(c)
  \/ \E c \in callers : UpdateStats(c)
  \/ \E c \in callers : ReturnResults(c)
  \/ SendCsv
  \/ NoResults
  \/ Cleanup
  \/ HandleException

SpecRoute == InitRoute /\ [][NextRoute]_vars

\* C25: when the local-upload request is over and its response closed, a
\* staging directory it created has been deleted unless the deletion itself
\* failed, and the request has answered with its response.
C25_TempDirReleased ==
  rt_pc = "done" =>
    /\ rt_response # "none"
    /\ (temp_dir # "none" /\ rt_call.remove_ok /\ rt_call.rmtree_ok) => temp_dir = "deleted"

\* ------------------------------------------- the Dropbox folder listing
\* cloudinary_service.py, list_dropbox_folders. A folder is its path from
\* the root: << >> is the root, << 1 >> its first subfolder, << 1, 2 >> the
\* second subfolder of that. The account: the root holds root_kids folders,
\* its first subfolder first_kids, every other subfolder of the root
\* other_kids, and the folders below hold none. failing is the folder whose
\* listing raises, on its first request or on its first continuation
\* request (mode none: no listing raises).
Subfolders(call, path) ==
  LET n == CASE Len(path) = 0 -> call.root_kids
             [] Len(path) = 1 /\ path[1] = 1 -> call.first_kids
             [] Len(path) = 1 -> call.other_kids
             [] OTHER -> 0 IN
    [ i \in 1..n |-> Append(path, i) ]

\* every folder of the account below the root
AccountFolders(call) ==
  LET top == Elements(Subfolders(call, << >>)) IN
    top \cup UNION { Elements(Subfolders(call, f)) : f \in top }

FolderInputs ==
  { call \in [ include_subdirs : BOOLEAN, client_ok : BOOLEAN,
               root_kids : 0..MaxSubfolders, first_kids : 0..MaxSubfolders,
               other_kids : 0..MaxSubfolders,
               failing : {<< >>} \cup { << i >> : i \in 1..MaxSubfolders }
                           \cup { << i, j >> : i, j \in 1..MaxSubfolders },
               mode : {"none", "first", "continue"} ] :
      /\ call.failing = << >> \/ call.failing \in AccountFolders(call)
      /\ call.mode = "none" => call.failing = << >> }

\* result.entries of the request number page for a folder, the folders
\* among them: PageSize entries a page
PageOf(call, path, page) ==
  LET subs == Subfolders(call, path) IN
    SubSeq(subs, (page - 1) * PageSize + 1, Min(page * PageSize, Len(subs)))

\* result.has_more after the request number page
HasMore(call, path, page) == page * PageSize < Len(Subfolders(call, path))

\* the request number page for the folder raises
ListingFails(call, path, page) ==
  /\ call.failing = path
  /\ \/ call.mode = "first" /\ page = 1
     \/ call.mode = "continue" /\ page = 2

\* the order of str on path_display: a path before the paths below it
PathLess(a, b) ==
  \E k \in 1..(Len(b)) :
    /\ \A j \in 1..(k - 1) : j <= Len(a) /\ a[j] = b[j]
    /\ k - 1 <= Len(a)
    /\ \/ k > Len(a)
       \/ a[k] < b[k]

RECURSIVE InsertPath(_, _)
InsertPath(x, seq) ==
  IF seq = << >> THEN << x >>
  ELSE IF PathLess(Head(seq), x) \/ Head(seq) = x
    THEN << Head(seq) >> \o InsertPath(x, Tail(seq))
    ELSE << x >> \o seq

\* sorted(all_folders)
RECURSIVE SortedPaths(_)
SortedPaths(seq) ==
  IF seq = << >> THEN << >> ELSE InsertPath(Head(seq), SortedPaths(Tail(seq)))

\* a call of scan_folder that is about to request the listing
Frame(path) == [ folder_path |-> path, phase |-> "list", page |-> 0, folders_to_scan |-> << >> ]

notfolders == << batchvars, exportvars, lookupvars, routevars, scanvars, imagevars >>

InitFolders ==
  /\ InitWith({}, {})
  /\ ExportIdle
  /\ LookupIdle
  /\ RouteIdle
  /\ ScanIdle
  /\ ImagesIdle
  /\ fl_call \in FolderInputs
  /\ fl_pc = "idle"
  /\ all_folders = << >>
  /\ scan_stack = << >>
  /\ fl_listed = << >>
  /\ fl_ret = None

\* the handler left out: the exception ends every running scan_folder
CaughtOutermost(stack) == << >>

\* except Exception as e: print(...) (286-287): the call of scan_folder that
\* raised returns to the one that made it
Caught(stack) == SubSeq(stack, 1, Len(stack) - 1)

\* the top call with a page of entries taken in (266-270, 275-279)
TakenIn(frame, call, page) ==
  [ frame EXCEPT
      !.page = page,
      !.folders_to_scan = IF call.include_subdirs
                            THEN @ \o PageOf(call, frame.folder_path, page) ELSE @,
      !.phase = IF HasMore(call, frame.folder_path, page) THEN "more" ELSE "recurse" ]

\* dropbox.Dropbox(...), all_folders = [], scan_folder('') (249-253, 290);
\* an exception here goes to the outer except: return [] (296-300)
ListDropboxFolders ==
  /\ fl_pc = "idle"
  /\ IF fl_call.client_ok
       THEN /\ scan_stack' = << Frame(<< >>) >>
            /\ fl_pc' = "scanning"
            /\ UNCHANGED fl_ret
       ELSE /\ fl_ret' = [value |-> << >>]
            /\ fl_pc' = "done"
            /\ UNCHANGED scan_stack
  /\ UNCHANGED << fl_call, all_folders, fl_listed, notfolders >>

\* dbx.files_list_folder(path=folder_path, ...) and its entries (257-270)
ListFolder ==
  /\ fl_pc = "scanning"
  /\ scan_stack # << >>
  /\ LET top == scan_stack[Len(scan_stack)] IN
       /\ top.phase = "list"
       /\ fl_listed' = Append(fl_listed, top.folder_path)
       /\ IF ListingFails(fl_call, top.folder_path, 1)
            THEN /\ scan_stack' = Caught(scan_stack)
                 /\ UNCHANGED all_folders
            ELSE /\ all_folders' = all_folders \o PageOf(fl_call, top.folder_path, 1)
                 /\ scan_stack' = [scan_stack EXCEPT ![Len(scan_stack)] =
                                     TakenIn(top, fl_call, 1)]
  /\ UNCHANGED << fl_call, fl_pc, fl_ret, notfolders >>

\* while result.has_more: dbx.files_list_folder_continue(result.cursor) and
\* its entries (273-279)
ListFolderContinue ==
  /\ fl_pc = "scanning"
  /\ scan_stack # << >>
  /\ LET top == scan_stack[Len(scan_stack)] IN
       /\ top.phase = "more"
       /\ IF ListingFails(fl_call, top.folder_path, top.page + 1)
            THEN /\ scan_stack' = Caught(scan_stack)
                 /\ UNCHANGED all_folders
            ELSE /\ all_folders' = all_folders \o PageOf(fl_call, top.folder_path, top.page + 1)
                 /\ scan_stack' = [scan_stack EXCEPT ![Len(scan_stack)] =
                                     TakenIn(top, fl_call, top.page + 1)]
  /\ UNCHANGED << fl_call, fl_pc, fl_listed, fl_ret, notfolders >>

\* for subfolder in folders_to_scan: scan_folder(subfolder) (282-284)
ScanSubfolder ==
  /\ fl_pc = "scanning"
  /\ scan_stack # << >>
  /\ LET top == scan_stack[Len(scan_stack)] IN
       /\ top.phase = "recurse"
       /\ top.folders_to_scan # << >>
       /\ scan_stack' = Append([scan_stack EXCEPT ![Len(scan_stack)].folders_to_scan = Tail(@)],
                               Frame(Head(top.folders_to_scan)))
  /\ UNCHANGED << fl_call, fl_pc, all_folders, fl_listed, fl_ret, notfolders >>

\* the loop over folders_to_scan is over: scan_folder returns
ScanReturn ==
  /\ fl_pc = "scanning"
  /\ scan_stack # << >>
  /\ LET top == scan_stack[Len(scan_stack)] IN
       /\ top.phase = "recurse"
       /\ top.folders_to_scan = << >>
       /\ scan_stack' = SubSeq(scan_stack, 1, Len(scan_stack) - 1)
  /\ UNCHANGED << fl_call, fl_pc, all_folders, fl_listed, fl_ret, notfolders >>

\* return sorted(all_folders) (292-294)
ReturnFolders ==
  /\ fl_pc = "scanning"
  /\ scan_stack = << >>
  /\ fl_ret' = [value |-> SortedPaths(all_folders)]
  /\ fl_pc' = "done"
  /\ UNCHANGED << fl_call, all_folders, scan_stack, fl_listed, notfolders >>

NextFolders ==
  \/ ListDropboxFolders
  \/ ListFolder
  \/ ListFolderContinue
  \/ ScanSubfolder
  \/ ScanReturn
  \/ ReturnFolders

SpecFolders == InitFolders /\ [][NextFolders]_vars

\* the folders of the same parent as a folder
Siblings(call, path) ==
  { f \in AccountFolders(call) :
      /\ f # path
      /\ Len(f) = Len(path)
      /\ SubSeq(f, 1, Len(f) - 1) = SubSeq(path, 1, Len(path) - 1) }

\* C23: when the listing of a subfolder raised, the call still returns the
\* sorted list of the folders recorded, every sibling of that subfolder is
\* in it and, with subdirectory scanning, each sibling's own listing was
\* requested.
C23_FailingSubfolderSkipped ==
  (fl_pc = "done" /\ fl_call.client_ok) =>
    /\ fl_ret = [value |-> SortedPaths(all_folders)]
    /\ \A k \in 1..(Len(fl_ret.value) - 1) : PathLess(fl_ret.value[k], fl_ret.value[k + 1])
    /\ \A f \in AccountFolders(fl_call) :
         (f = fl_call.failing /\ fl_call.mode # "none" /\ f \in Elements(fl_listed)) =>
           /\ f \in Elements(fl_ret.value)
           /\ \A g \in Siblings(fl_call, f) :
                /\ g \in Elements(fl_ret.value)
                /\ g \in Elements(fl_listed)

\* the listing of the first of three subfolders of the root raised on its
\* first request; the third, which holds folders, was listed after it
C23_Witness ==
  /\ fl_pc = "done"
  /\ fl_call.client_ok
  /\ fl_call.failing = << 1 >>
  /\ fl_call.mode = "first"
  /\ fl_call.root_kids = 3
  /\ << 1 >> \in Elements(fl_listed)
  /\ << 3, 1 >> \in Elements(fl_ret.value)

\* C29: with subdirectory scanning the returned list is closed under
\* listing: every subfolder of a returned folder whose own listing does not
\* fail is returned too.
C29_ClosedUnderListing ==
  (fl_pc = "done" /\ fl_call.client_ok /\ fl_call.include_subdirs) =>
    \A f \in Elements(fl_ret.value) :
      (fl_call.failing # f \/ fl_call.mode = "none") =>
        \A g \in Elements(Subfolders(fl_call, f)) : g \in Elements(fl_ret.value)

\* ------------------------------------------ the Cloudinary folder scans
\* cloudinary_service.py, list_cloudinary_folders and get_folder_structure.
\* A public_id is a string of the characters a, b and /; Cloudinary stores
\* no public_id that begins or ends with / or holds //.
IdPool ==
  [ deep |-> << "a", "/", "b", "/", "a" >>,
    twin |-> << "a", "/", "a", "/", "b" >>,
    other |-> << "b", "/", "a" >>,
    flat |-> << "b" >> ]

\* the pages cloudinary.api.resources may answer with: the public_ids of
\* their resources
PagePool ==
  { << IdPool.deep, IdPool.flat >>, << IdPool.other >>, << IdPool.twin, IdPool.deep >>, << >> }

\* what cloudinary.api.root_folders() does: raises, or answers with names
RootPool ==
  { [ok |-> FALSE, names |-> << >>],
    [ok |-> TRUE, names |-> << << "c" >>, EmptyStr >>],
    [ok |-> TRUE, names |-> << << "a" >>, << "c" >> >>] }

\* fn: the function called; pages: the resource pages of the account;
\* endless: the service answers every page with a cursor (after the last
\* page it starts again); fail_at: the request that raises (0: none)
ScanInputs ==
  [ fn : {"list", "structure"}, max_pages : 0..MaxPagesArg,
    pages : UNION { [1..n -> PagePool] : n \in 1..MaxRemotePages },
    endless : BOOLEAN, fail_at : 0..MaxPagesArg, root : RootPool ]

\* '/' in public_id
HasSlash(str) == \E i \in DOMAIN str : str[i] = "/"

\* str.split('/')
RECURSIVE SplitSlash(_)
SplitSlash(str) ==
  IF ~HasSlash(str) THEN << str >>
  ELSE LET i == CHOOSE k \in DOMAIN str : str[k] = "/" /\ \A j \in 1..(k - 1) : str[j] # "/" IN
         << SubSeq(str, 1, i - 1) >> \o SplitSlash(SubSeq(str, i + 1, Len(str)))

\* '/'.join(parts)
RECURSIVE JoinSlash(_)
JoinSlash(parts) ==
  IF parts = << >> THEN EmptyStr
  ELSE IF Len(parts) = 1 THEN parts[1]
  ELSE parts[1] \o << "/" >> \o JoinSlash(Tail(parts))

\* the code points of the characters
Ord(ch) == CASE ch = "/" -> 47 [] ch = "a" -> 97 [] ch = "b" -> 98 [] ch = "c" -> 99

\* the order of str
StrLess(a, b) ==
  \E k \in 1..Len(b) :
    /\ \A j \in 1..(k - 1) : j <= Len(a) /\ a[j] = b[j]
    /\ \/ k > Len(a)
       \/ Ord(a[k]) < Ord(b[k])

\* sorted(a set of str)
RECURSIVE SortedStrs(_)
SortedStrs(set) ==
  IF set = {} THEN << >>
  ELSE LET least == CHOOSE x \in set : \A y \in set \ {x} : StrLess(x, y) IN
         << least >> \o SortedStrs(set \ {least})

RECURSIVE InsertStr(_, _)
InsertStr(x, seq) ==
  IF seq = << >> THEN << x >>
  ELSE IF StrLess(x, Head(seq)) THEN << x >> \o seq
  ELSE << Head(seq) >> \o InsertStr(x, Tail(seq))

\* list.sort()
RECURSIVE SortStrSeq(_)
SortStrSeq(seq) ==
  IF seq = << >> THEN << >> ELSE InsertStr(Head(seq), SortStrSeq(Tail(seq)))

\* for f in root.get('folders', []): if name: add(name) (398-404, 462-467);
\* an exception of root_folders is passed over
RootNames(call) ==
  IF call.root.ok THEN { n \in Elements(call.root.names) : n # EmptyStr } ELSE {}

\* prefix = public_id.split('/')[0]; if prefix: discovered.add(prefix)
\* (431-435)
TopPrefix(public_id) ==
  IF HasSlash(public_id) /\ SplitSlash(public_id)[1] # EmptyStr
    THEN { SplitSlash(public_id)[1] } ELSE {}

\* for i in range(1, len(parts)): '/'.join(parts[:i]) added when not empty
\* (501-509)
FolderLevels(public_id) ==
  IF HasSlash(public_id)
    THEN LET parts == SplitSlash(public_id) IN
           { JoinSlash(SubSeq(parts, 1, i)) : i \in 1..(Len(parts) - 1) } \ { EmptyStr }
    ELSE {}

\* what the resources of a page add to the discovered set
PageFolders(call, resources) ==
  UNION { IF call.fn = "list" THEN TopPrefix(resources[k]) ELSE FolderLevels(resources[k]) :
            k \in DOMAIN resources }

\* the page the service answers a request with: the first page without a
\* cursor, the page the cursor names with one
PageAsked(cursor) == IF cursor = None THEN 1 ELSE cursor[1]
RemotePage(call, idx) == call.pages[((idx - 1) % Len(call.pages)) + 1]

\* resp.get('next_cursor')
CursorAfter(call, idx) ==
  IF call.endless \/ idx < Len(call.pages) THEN << idx + 1 >> ELSE None

\* the cap never reached
PastCapNever(page, max_pages) == FALSE

\* if page > max_pages: break (414-415, 479-481)
PastCap(page, max_pages) == page > max_pages

\* the path listed under its main folder, the main folder itself too
ListedWithMain(fs, main_folder, path) == path \notin Elements(fs[main_folder])

\* if path not in folder_structure[main_folder] and path != main_folder (533)
Listed(fs, main_folder, path) ==
  path \notin Elements(fs[main_folder]) /\ path # main_folder

\* for path in all_folders: ... (525-534)
RECURSIVE Grouped(_, _)
Grouped(fs, paths) ==
  IF paths = << >> THEN fs
  ELSE LET path == Head(paths)
           main_folder == SplitSlash(path)[1]
           made == IF main_folder \in DOMAIN fs THEN fs ELSE fs @@ (main_folder :> << >>)
           added == IF Listed(made, main_folder, path)
                      THEN [made EXCEPT ![main_folder] = Append(@, path)] ELSE made IN
         Grouped(added, Tail(paths))

\* all_folders = sorted(discovered_paths), the grouping, the sort of every
\* list, and the main folders without subfolders (523-543)
FolderStructure(paths) ==
  LET all == SortedStrs(paths)
      grouped == Grouped(<< >>, all)
      sorted == [ k \in DOMAIN grouped |-> SortStrSeq(grouped[k]) ]
      mains == { q \in paths : ~HasSlash(q) /\ q \notin DOMAIN sorted } IN
    sorted @@ [ q \in mains |-> << >> ]

notscan == << batchvars, exportvars, lookupvars, routevars, foldervars, imagevars >>

InitScan ==
  /\ InitWith({}, {})
  /\ ExportIdle
  /\ LookupIdle
  /\ RouteIdle
  /\ FoldersIdle
  /\ ImagesIdle
  /\ sc_call \in ScanInputs
  /\ sc_pc = "idle"
  /\ discovered = {}
  /\ sc_page = 0
  /\ next_cursor = None
  /\ sc_requests = 0
  /\ sc_ret = None

\* discovered = set(), root_folders(), next_cursor = None, page = 0
\* (394-410, 454-475)
ScanRootFolders ==
  /\ sc_pc = "idle"
  /\ discovered' = RootNames(sc_call)
  /\ sc_pc' = "loop"
  /\ UNCHANGED << sc_call, sc_page, next_cursor, sc_requests, sc_ret, notscan >>

\* page += 1; if page > max_pages: break
ReachCap ==
  /\ sc_pc = "loop"
  /\ PastCap(sc_page + 1, sc_call.max_pages)
  /\ sc_page' = sc_page + 1
  /\ sc_pc' = "after"
  /\ UNCHANGED << sc_call, discovered, next_cursor, sc_requests, sc_ret, notscan >>

\* page += 1; cloudinary.api.resources(...), the resources taken in, the
\* cursor read (413-439, 478-514); an exception goes to the except clause
\* that ends the loop (441-442, 516-518)
RequestPage ==
  /\ sc_pc = "loop"
  /\ ~PastCap(sc_page + 1, sc_call.max_pages)
  /\ sc_page' = sc_page + 1
  /\ sc_requests' = sc_requests + 1
  /\ IF sc_call.fail_at = sc_requests + 1
       THEN /\ sc_pc' = "after"
            /\ UNCHANGED << discovered, next_cursor >>
       ELSE LET idx == PageAsked(next_cursor) IN
              /\ discovered' = discovered \cup PageFolders(sc_call, RemotePage(sc_call, idx))
              /\ next_cursor' = CursorAfter(sc_call, idx)
              /\ sc_pc' = IF next_cursor' = None THEN "after" ELSE "loop"
  /\ UNCHANGED << sc_call, sc_ret, notscan >>

\* list_cloudinary_folders: return sorted(discovered) (444)
ReturnFolderList ==
  /\ sc_pc = "after"
  /\ sc_call.fn = "list"
  /\ sc_ret' = [value |-> SortedStrs(discovered)]
  /\ sc_pc' = "done"
  /\ UNCHANGED << sc_call, discovered, sc_page, next_cursor, sc_requests, notscan >>

\* get_folder_structure: the structure built and returned (520-552)
ReturnStructure ==
  /\ sc_pc = "after"
  /\ sc_call.fn = "structure"
  /\ sc_ret' = [value |-> FolderStructure(discovered)]
  /\ sc_pc' = "done"
  /\ UNCHANGED << sc_call, discovered, sc_page, next_cursor, sc_requests, notscan >>

NextScan ==
  \/ ScanRootFolders
  \/ ReachCap
  \/ RequestPage
  \/ ReturnFolderList
  \/ ReturnStructure

SpecScan == InitScan /\ [][NextScan]_vars

\* ---- claims on the folder scans
\* the folder of the characters of a public_id before one of its slashes
LevelsOf(public_id) ==
  { SubSeq(public_id, 1, i - 1) : i \in { k \in DOMAIN public_id : public_id[k] = "/" } }

\* the requests that were answered
Answered == { r \in 1..sc_requests : r # sc_call.fail_at }

\* the public_ids of the pages that were read
ScannedIds == UNION { Elements(RemotePage(sc_call, r)) : r \in Answered }

\* str.startswith
StartsWith(str, prefix) ==
  Len(prefix) <= Len(str) /\ SubSeq(str, 1, Len(prefix)) = prefix

AtMost(max_pages) == IF max_pages < 0 THEN 0 ELSE max_pages

\* the requests a scan makes: up to the first that raises or is answered
\* without a cursor, and no more than max_pages
ExpectedRequests(call) ==
  LET last == { r \in 1..AtMost(call.max_pages) :
                  r = call.fail_at \/ CursorAfter(call, r) = None } IN
    IF last = {} THEN AtMost(call.max_pages)
    ELSE CHOOSE r \in last : \A q \in last : r <= q

\* the folders a returned value holds
FoldersIn(value) ==
  IF sc_call.fn = "list" THEN Elements(value)
  ELSE DOMAIN value \cup UNION { Elements(value[K]) : K \in DOMAIN value }

\* C28: a folder scan makes at most max_pages page requests, whatever
\* cursors the service answers with: every turn of its loop makes one
\* request and the loop is left after max_pages turns at the latest; it
\* stops at the first page without a cursor and at the first request that
\* raises, and then returns the folders of the pages it has read.
C28_ScansTerminate ==
  /\ sc_requests <= AtMost(sc_call.max_pages)
  /\ sc_page <= AtMost(sc_call.max_pages) + 1
  /\ sc_pc = "loop" => (sc_page = sc_requests /\ sc_page <= AtMost(sc_call.max_pages))
  /\ sc_pc = "loop" => (sc_page = 0 \/ next_cursor # None)
  /\ sc_pc \in {"after", "done"} => sc_requests = ExpectedRequests(sc_call)
  /\ sc_pc = "done" =>
       /\ FoldersIn(sc_ret.value)
            = RootNames(sc_call) \cup
                UNION { IF sc_call.fn = "list"
                          THEN { SubSeq(id, 1, i - 1) :
                                   i \in { k \in DOMAIN id :
                                             id[k] = "/" /\ \A j \in 1..(k - 1) : id[j] # "/" } }
                          ELSE LevelsOf(id) : id \in ScannedIds }

\* a scan was stopped by max_pages while the service kept answering with
\* cursors, and another by a request that raised after a page was read
C28_Witness ==
  /\ sc_pc = "done"
  /\ \/ /\ sc_call.endless
        /\ sc_call.fail_at = 0
        /\ sc_requests = sc_call.max_pages
        /\ sc_requests >= 2
        /\ next_cursor # None
     \/ /\ sc_call.fail_at = 2
        /\ sc_requests = 2
        /\ FoldersIn(sc_ret.value) # {}

\* ------------------------------------------------ the image-URL export
\* image_service.py, ImageExtractorService.export_to_csv. A row of the image
\* query: the EAN and the reference of a product and the URL of its first
\* image; the other nine positions hold no image.
ImageRow(ean, ref, url) == [ ean |-> ean, ref |-> ref, image_1 |-> url ]

\* the products with status 'on', as ORDER BY p.ean and ORDER BY p.ref,
\* p.ean return them; two products share the EAN 1 and two the reference a
ImagePool ==
  [ first |-> ImageRow(<< "1" >>, << "a" >>, << "u", "1" >>),
    second |-> ImageRow(<< "1" >>, << "b" >>, << "u", "2" >>),
    third |-> ImageRow(<< "3" >>, << "a" >>, << "u", "3" >>) ]

\* ORDER BY p.ean leaves the order of the rows of one EAN open
EanOrders ==
  { << ImagePool.first, ImagePool.second, ImagePool.third >>,
    << ImagePool.second, ImagePool.first, ImagePool.third >> }

\* ORDER BY p.ref, p.ean
RefOrder == << ImagePool.first, ImagePool.third, ImagePool.second >>

ImageInputs ==
  [ search_type : {"ean"},
    codes : CodeLists({ << "1" >>, << "2" >>, << " ", "1" >>, << " " >> }),
    catalog : SUBSET { ImagePool.first, ImagePool.second, ImagePool.third },
    db_ok : BOOLEAN ]
  \cup
  [ search_type : {"ref"},
    codes : CodeLists({ << "a" >>, << "c" >>, << " ", "a" >>, << " " >> }),
    catalog : SUBSET { ImagePool.first, ImagePool.second, ImagePool.third },
    db_ok : BOOLEAN ]

notimages == << batchvars, exportvars, lookupvars, routevars, foldervars, scanvars >>

InitImages ==
  /\ InitWith({}, {})
  /\ ExportIdle
  /\ LookupIdle
  /\ RouteIdle
  /\ FoldersIdle
  /\ ScanIdle
  /\ im_call \in ImageInputs
  /\ im_pc = "idle"
  /\ im_clean = << >>
  /\ images_data = << >>
  /\ images_list = << >>
  /\ im_found = << >>
  /\ not_found = << >>
  /\ im_files = << >>
  /\ im_ret = None

\* the search is by EAN
ImagesByEan == im_call.search_type = "ean"

\* WHERE p.ean IN (...) / WHERE p.ref IN (...) AND p.status = 'on' (131-149)
Fetched(order, codes, ean) ==
  SelectSeq(order, LAMBDA row : /\ row \in im_call.catalog
                                /\ (IF ean THEN row.ean ELSE row.ref) \in Elements(codes))

\* for row in results: if ean not in images_by_ean: images_by_ean[ean] = row
\* (66-70)
RECURSIVE GroupedByEan(_, _)
GroupedByEan(by, rows) ==
  IF rows = << >> THEN by
  ELSE GroupedByEan(IF Head(rows).ean \in DOMAIN by THEN by
                    ELSE by @@ (Head(rows).ean :> Head(rows)), Tail(rows))

\* list(images_data.values()) and list(images_data.keys()): the rows and the
\* keys in the order in which the keys were put in
RECURSIVE FirstOfEach(_, _)
FirstOfEach(rows, seen) ==
  IF rows = << >> THEN << >>
  ELSE IF Head(rows).ean \in seen THEN FirstOfEach(Tail(rows), seen)
  ELSE << Head(rows) >> \o FirstOfEach(Tail(rows), seen \cup { Head(rows).ean })

\* {row['ref']: row for row in images_list} (172)
RECURSIVE KeyedByRef(_, _)
KeyedByRef(by, rows) ==
  IF rows = << >> THEN by
  ELSE KeyedByRef(IF Head(rows).ref \in DOMAIN by
                    THEN [by EXCEPT ![Head(rows).ref] = Head(rows)]
                    ELSE by @@ (Head(rows).ref :> Head(rows)), Tail(rows))

\* list(a set): its elements in some order
Orderings(set) ==
  { seq \in [1..Cardinality(set) -> set] : \A i, j \in DOMAIN seq : i # j => seq[i] # seq[j] }

\* [row_data.get(f'image_{i}', '') for i in range(1, 11)]
ImageCells(row_data) == [ i \in 1..10 |-> IF i = 1 THEN row_data.image_1 ELSE EmptyStr ]

\* [''] * 10
NoImageCells == [ i \in 1..10 |-> EmptyStr ]

\* the header row (182-185)
ImageHeaders(ean) ==
  (IF ean THEN << "ean" >> ELSE << "ref", "ean" >>) \o
    << "image_1", "image_2", "image_3", "image_4", "image_5",
       "image_6", "image_7", "image_8", "image_9", "image_10" >>

\* the row of a code without product (210, 212, 237, 252)
BlankRow(code, ean) ==
  IF ean THEN << code >> \o NoImageCells ELSE << code, EmptyStr >> \o NoImageCells

\* _write_csv_file for an EAN search: for code in codes ... (231-237)
RECURSIVE EanRows(_, _, _)
EanRows(codes, data, missing) ==
  IF codes = << >> THEN << >>
  ELSE LET code == Head(codes) IN
         (IF code \in DOMAIN data THEN << << code >> \o ImageCells(data[code]) >>
          ELSE IF code \in Elements(missing) THEN << BlankRow(code, TRUE) >>
          ELSE << >>) \o EanRows(Tail(codes), data, missing)

\* the rows of the products of a reference (243-248)
RowsOfRef(code, rows) ==
  LET hits == SelectSeq(rows, LAMBDA row_data : row_data.ref = code) IN
    [ i \in DOMAIN hits |-> << hits[i].ref, hits[i].ean >> \o ImageCells(hits[i]) ]

\* _write_csv_file for a REF search: for code in codes: if code not in
\* not_found ... (241-248)
RECURSIVE RefRows(_, _, _)
RefRows(codes, rows, missing) ==
  IF codes = << >> THEN << >>
  ELSE (IF Head(codes) \notin Elements(missing) THEN RowsOfRef(Head(codes), rows) ELSE << >>)
         \o RefRows(Tail(codes), rows, missing)

\* for code in not_found: writer.writerow(...) (208-212, 251-252)
BlankRows(codes, ean) == [ i \in DOMAIN codes |-> BlankRow(codes[i], ean) ]

\* _write_csv_file (222-252)
WriteCsvFile(codes, data, rows, ean, missing) ==
  << ImageHeaders(ean) >> \o
    (IF ean THEN EanRows(codes, data, missing)
     ELSE RefRows(codes, rows, missing) \o BlankRows(missing, FALSE))

\* clean_codes and the query (160-172); without a code left the call
\* returns None, None, None; a database error leaves no row (74-76, 102-104)
GetImages ==
  /\ im_pc = "idle"
  /\ LET codes == Clean(im_call.codes) IN
       IF codes = << >>
         THEN /\ im_ret' = << None, None, None >>
              /\ im_pc' = "done"
              /\ UNCHANGED << im_clean, images_data, images_list >>
         ELSE /\ im_clean' = codes
              /\ im_pc' = "fetched"
              /\ UNCHANGED im_ret
              /\ IF ~im_call.db_ok
                   THEN images_data' = << >> /\ images_list' = << >>
                   ELSE IF ImagesByEan
                   THEN \E order \in EanOrders :
                          LET rows == Fetched(order, Clean(codes), TRUE) IN
                            /\ images_data' = GroupedByEan(<< >>, rows)
                            /\ images_list' = FirstOfEach(rows, {})
                   ELSE LET rows == Fetched(RefOrder, Clean(codes), FALSE) IN
                          /\ images_list' = rows
                          /\ images_data' = KeyedByRef(<< >>, rows)
  /\ UNCHANGED << im_call, im_found, not_found, im_files, notimages >>

\* found_codes and not_found (188-194)
TrackFound ==
  /\ im_pc = "fetched"
  /\ IF ImagesByEan
       THEN /\ im_found' = [ i \in DOMAIN images_list |-> images_list[i].ean ]
            /\ not_found' = SelectSeq(im_clean, LAMBDA code : code \notin DOMAIN images_data)
       ELSE LET found_refs == { images_list[i].ref : i \in DOMAIN images_list } IN
              /\ im_found' \in Orderings(found_refs)
              /\ not_found' = SelectSeq(im_clean, LAMBDA code : code \notin found_refs)
  /\ im_pc' = "tracked"
  /\ UNCHANGED << im_call, im_clean, images_data, images_list, im_files, im_ret, notimages >>

\* the ALL file (197-198)
WriteAllFile ==
  /\ im_pc = "tracked"
  /\ im_files' = im_files @@
       ("ALL" :> WriteCsvFile(im_clean, images_data, images_list, ImagesByEan, not_found))
  /\ im_pc' = "all_written"
  /\ UNCHANGED << im_call, im_clean, images_data, images_list, im_found, not_found, im_ret,
                  notimages >>

\* the FOUND file (201-202)
WriteFoundFile ==
  /\ im_pc = "all_written"
  /\ im_files' = im_files @@
       ("FOUND" :> WriteCsvFile(im_found, images_data, images_list, ImagesByEan, << >>))
  /\ im_pc' = "found_written"
  /\ UNCHANGED << im_call, im_clean, images_data, images_list, im_found, not_found, im_ret,
                  notimages >>

\* the NOT_FOUND file and the return (205-216)
WriteNotFoundFile ==
  /\ im_pc = "found_written"
  /\ im_files' = im_files @@
       ("NOT_FOUND" :> (<< ImageHeaders(ImagesByEan) >> \o BlankRows(not_found, ImagesByEan)))
  /\ im_ret' = << Str("ALL"), Str("FOUND"), Str("NOT_FOUND") >>
  /\ im_pc' = "done"
  /\ UNCHANGED << im_call, im_clean, images_data, images_list, im_found, not_found, notimages >>

NextImages ==
  \/ GetImages
  \/ TrackFound
  \/ WriteAllFile
  \/ WriteFoundFile
  \/ WriteNotFoundFile

SpecImages == InitImages /\ [][NextImages]_vars

\* ---- claims on the image-URL export
\* the rows of a file after its header row
ImageDataRows(name) == SubSeq(im_files[name], 2, Len(im_files[name]))

\* how often a row stands in a list of rows
Times(row, rows) == Cardinality({ i \in DOMAIN rows : rows[i] = row })

\* C30: the data rows of the ALL file are the data rows of the FOUND file
\* together with those of the NOT_FOUND file, each as often, and for an EAN
\* search the ALL file has one data row per cleaned code.
C30_AllIsFoundPlusNotFound ==
  (im_pc = "done" /\ im_ret # << None, None, None >>) =>
    /\ \A row \in Elements(ImageDataRows("ALL")) \cup Elements(ImageDataRows("FOUND"))
                    \cup Elements(ImageDataRows("NOT_FOUND")) :
         Times(row, ImageDataRows("ALL"))
           = Times(row, ImageDataRows("FOUND")) + Times(row, ImageDataRows("NOT_FOUND"))
    /\ ImagesByEan => Len(ImageDataRows("ALL")) = Len(im_clean)

====
